---------------------------- MODULE Spec2Model ----------------------------
(***************************************************************************)
(* Real-time direct/group messaging of mini-office: the Message model      *)
(* (conversation key, reactions, read receipts, edit, soft delete), the    *)
(* REST message routes and the socket gateway (authenticate, disconnect,   *)
(* mark_as_read).                                                          *)
(*                                                                         *)
(* The specifications share the variables:                                 *)
(*   SpecSeq      the Message model's methods called one after another     *)
(*                (each call: findById, the method, its save);             *)
(*   SpecStore    REST requests and gateway mark_as_read handlers, each    *)
(*                split at its awaits, interleaved on the store;           *)
(*   SpecGateway  socket connections: authenticate and disconnect          *)
(*                handlers split at their awaits;                          *)
(*   SpecClock    the edit route under an advancing clock;                 *)
(*   SpecEvents   every gateway event on authenticated connections;        *)
(*   SpecOffline  sends to a user who authenticates later;                 *)
(*   SpecSummary  sends, fetches and deletes under the clock, for the      *)
(*                conversation summaries;                                  *)
(*   SpecSends    the four ways a message is stored;                       *)
(*   SpecPages    the paginated reads as functions of the store.           *)
(***************************************************************************)
EXTENDS Integers, Sequences, FiniteSets, TLC

(***************************************************************************)
(* Bounds of the model.                                                    *)
(***************************************************************************)
NumUsers == 2

HexWidth == 2

MaxMsgs == 2

MaxOps == 2

MaxSeqOps == 5

NumConns == 3

MaxEvents == 3

MaxInFlight == 2

(***************************************************************************)
(* Values.                                                                 *)
(***************************************************************************)
\* default: null of the schema's ObjectId fields; falsy in the code's tests.
Null == 0

\* The separator of ids.join('_'), as a UTF-16 code unit.
Underscore == 95

\* ObjectIds of the users in the store.
UserIds == {9 * k : k \in 1..NumUsers}

\* An ObjectId no user document has (a token of a deleted user).
GhostId == 9 * (NumUsers + 1)

\* ObjectId of the one group, its owner, admins and members.
GroupIds == {7}

Emojis == {"+1"}

\* Message contents, as sequences of UTF-16 code units: "hi", "Yo".
Contents == {<<104, 105>>, <<89, 111>>}

\* The content messages are sent with: "hi" (an edit sets any of Contents).
SentContents == {<<104, 105>>}

\* Search strings of at least two characters: "hi", "yo".
Queries == {<<104, 105>>, <<121, 111>>}

Range(s) == {s[i] : i \in DOMAIN s}

(***************************************************************************)
(* ObjectId.prototype.toString(): the id as lower-case hexadecimal digits  *)
(* of a fixed width, here as a sequence of code units.                     *)
(***************************************************************************)
HexChar(d) == IF d < 10 THEN 48 + d ELSE 87 + d

IdToString(id) ==
  [i \in 1..HexWidth |-> HexChar((id \div (16 ^ (HexWidth - i))) % 16)]

\* The order Array.prototype.sort() uses by default: by UTF-16 code units,
\* a proper prefix before the longer string.
RECURSIVE StrLess(_, _)
StrLess(s, t) ==
  IF t = <<>> THEN FALSE
  ELSE IF s = <<>> THEN TRUE
  ELSE IF s[1] # t[1] THEN s[1] < t[1]
  ELSE StrLess(Tail(s), Tail(t))

\* [a, b].sort()
SortPair(a, b) == IF StrLess(b, a) THEN <<b, a>> ELSE <<a, b>>

\* The mutant of JoinIds that keeps the first id only.
JoinIdsFirst(ids) == ids[1]

\* ids.join('_')
JoinIds(ids) == ids[1] \o <<Underscore>> \o ids[2]

VARIABLES
  messages,       \* the messages collection, in creation order (id = index)
  editLog,        \* history, per message: the content it was created with,
                  \* whether editContent was called on it, the last content set,
                  \* whether a delete of it was stored
  hist,           \* history: the last two calls of SpecSeq, oldest first
  ops,            \* number of calls, requests and handlers started so far
  now,            \* Date.now(), in minutes
  handlers,       \* the in-flight REST requests and gateway handlers
  out,            \* what the last step emitted: events to rooms, responses
  sockets,        \* per connection: socket.userId, connected, its rooms
  connectedUsers, \* the gateway's Map: userId -> socketId of its entry
  users,          \* the users collection: isOnline, lastSeen, joinedGroups
  groups          \* the groups collection: owner, admins, members

vars == <<messages, editLog, hist, ops, now, handlers, out,
          sockets, connectedUsers, users, groups>>

storeVars == <<messages, editLog, hist, now>>

gatewayVars == <<sockets, connectedUsers, users, groups>>

MsgIds == 1..MaxMsgs

(***************************************************************************)
(* The Message document.                                                   *)
(***************************************************************************)
\* new Message({sender, recipient | group, content}) with the schema defaults
NewMessage(sender, recipient, group, content) ==
  [sender |-> sender, recipient |-> recipient, group |-> group,
   conversation |-> <<>>, content |-> content, replyTo |-> Null,
   reactions |-> <<>>, readBy |-> <<>>,
   edited |-> [isEdited |-> FALSE, editedAt |-> Null, originalContent |-> <<>>],
   isDeleted |-> FALSE, deletedAt |-> Null, createdAt |-> now, v |-> 0]

\* The mutant of PreSave that joins the ids unsorted.
PreSaveUnsorted(doc) ==
  IF doc.group = Null /\ doc.recipient # Null
  THEN [doc EXCEPT !.conversation =
          JoinIds(<<IdToString(doc.sender), IdToString(doc.recipient)>>)]
  ELSE doc

\* messageSchema.pre('save'): the conversation id of a direct message
PreSave(doc) ==
  IF doc.group = Null /\ doc.recipient # Null
  THEN [doc EXCEPT !.conversation =
          JoinIds(SortPair(IdToString(doc.sender), IdToString(doc.recipient)))]
  ELSE doc

\* const conversationId of getConversation and of the conversation search
ConversationId(userId1, userId2) ==
  JoinIds(SortPair(IdToString(userId1), IdToString(userId2)))

HasReaction(doc, userId, emoji) ==
  \E i \in DOMAIN doc.reactions :
    /\ IdToString(doc.reactions[i].user) = IdToString(userId)
    /\ doc.reactions[i].emoji = emoji

HasRead(doc, userId) ==
  \E i \in DOMAIN doc.readBy :
    IdToString(doc.readBy[i].user) = IdToString(userId)

(***************************************************************************)
(* The methods, on the in-memory document: the changed document, the       *)
(* returned value and the update its save() sends ("none": no save, or a   *)
(* save of a document with no modified path).                              *)
(***************************************************************************)
\* The mutant of AddReaction that pushes without looking for the pair.
AddReactionNoCheck(doc, userId, emoji) ==
  [doc |-> [doc EXCEPT !.reactions =
              Append(@, [user |-> userId, emoji |-> emoji, createdAt |-> now])],
   ret |-> TRUE, save |-> "pushReactions"]

AddReaction(doc, userId, emoji) ==
  IF ~HasReaction(doc, userId, emoji)
  THEN [doc |-> [doc EXCEPT !.reactions =
                   Append(@, [user |-> userId, emoji |-> emoji, createdAt |-> now])],
        ret |-> TRUE, save |-> "pushReactions"]
  ELSE [doc |-> doc, ret |-> FALSE, save |-> "none"]

RemoveReaction(doc, userId, emoji) ==
  LET kept(r) == ~(IdToString(r.user) = IdToString(userId) /\ r.emoji = emoji)
      filtered == SelectSeq(doc.reactions, kept)
  IN  [doc |-> [doc EXCEPT !.reactions = filtered],
       ret |-> FALSE,
       save |-> IF filtered = doc.reactions THEN "none" ELSE "setReactions"]

\* The mutant of MarkAsRead that pushes without looking for the user.
MarkAsReadNoCheck(doc, userId) ==
  [doc |-> [doc EXCEPT !.readBy = Append(@, [user |-> userId, readAt |-> now])],
   ret |-> FALSE, save |-> "pushReadBy"]

MarkAsRead(doc, userId) ==
  IF ~HasRead(doc, userId)
  THEN [doc |-> [doc EXCEPT !.readBy = Append(@, [user |-> userId, readAt |-> now])],
        ret |-> FALSE, save |-> "pushReadBy"]
  ELSE [doc |-> doc, ret |-> FALSE, save |-> "none"]

\* The mutant of EditContent that snapshots the content on every edit.
EditContentAlwaysSnapshot(doc, newContent) ==
  [doc |-> [doc EXCEPT !.edited = [isEdited |-> TRUE, editedAt |-> now,
                                   originalContent |-> doc.content],
                       !.content = newContent],
   ret |-> FALSE, save |-> "setContent"]

EditContent(doc, newContent) ==
  LET snap == IF ~doc.edited.isEdited THEN doc.content
              ELSE doc.edited.originalContent
  IN  [doc |-> [doc EXCEPT !.edited = [isEdited |-> TRUE, editedAt |-> now,
                                       originalContent |-> snap],
                           !.content = newContent],
       ret |-> FALSE, save |-> "setContent"]

\* message.isDeleted = true; message.deletedAt = new Date()
SoftDelete(doc) ==
  [doc |-> [doc EXCEPT !.isDeleted = TRUE, !.deletedAt = now],
   ret |-> FALSE, save |-> "setDeleted"]

(***************************************************************************)
(* document.save() of a loaded document: Mongoose sends the modified paths *)
(* only.  A pushed array element goes as $push and increments __v; an      *)
(* array assigned as a whole goes as $set with the loaded __v in the       *)
(* filter (a VersionError when the stored __v differs) and increments it;  *)
(* scalar paths go as $set.                                                *)
(***************************************************************************)
Last(s) == s[Len(s)]

SaveFails(stored, doc, save) == save = "setReactions" /\ stored.v # doc.v

\* The mutant of Save that writes the whole loaded document back.
SaveWholeDocument(stored, doc, save) ==
  IF save = "none" THEN stored ELSE [doc EXCEPT !.v = stored.v + 1]

Save(stored, doc, save) ==
  CASE save = "pushReactions" ->
         [stored EXCEPT !.reactions = Append(@, Last(doc.reactions)), !.v = @ + 1]
    [] save = "pushReadBy" ->
         [stored EXCEPT !.readBy = Append(@, Last(doc.readBy)), !.v = @ + 1]
    [] save = "setReactions" ->
         IF stored.v = doc.v
         THEN [stored EXCEPT !.reactions = doc.reactions, !.v = @ + 1]
         ELSE stored
    [] save = "setContent" ->
         [stored EXCEPT !.content = doc.content, !.edited = doc.edited]
    [] save = "setDeleted" ->
         [stored EXCEPT !.isDeleted = doc.isDeleted, !.deletedAt = doc.deletedAt]
    [] OTHER -> stored

(***************************************************************************)
(* In-flight handlers: a REST request or a gateway handler between two of  *)
(* its awaits, with the document it loaded.                                *)
(***************************************************************************)
Slots == 1..MaxInFlight

NoDoc ==
  [sender |-> Null, recipient |-> Null, group |-> Null,
   conversation |-> <<>>, content |-> <<>>, replyTo |-> Null,
   reactions |-> <<>>, readBy |-> <<>>,
   edited |-> [isEdited |-> FALSE, editedAt |-> Null, originalContent |-> <<>>],
   isDeleted |-> FALSE, deletedAt |-> Null, createdAt |-> Null, v |-> 0]

Idle ==
  [kind |-> "idle", pc |-> "idle", conn |-> Null, user |-> Null, m |-> Null,
   emoji |-> "", content |-> <<>>, group |-> Null, doc |-> NoDoc,
   save |-> "none", added |-> FALSE, joined |-> {}, recipient |-> Null]

Conns == 1..NumConns

\* The first two users are the members of the group, the first its owner.
FirstUsers == {9 * k : k \in 1..2}

InitStoreData ==
  /\ messages = <<>>
  /\ editLog = <<>>
  /\ hist = <<>>
  /\ ops = 0
  /\ now = 0
  /\ handlers = [s \in Slots |-> Idle]
  /\ out = <<>>
  /\ groups = [g \in GroupIds |->
                 [owner |-> 9, admins |-> {}, members |-> FirstUsers]]

\* Every connection established and not yet authenticated, every user offline.
InitShared ==
  /\ InitStoreData
  /\ sockets = [c \in Conns |->
                  [userId |-> Null, open |-> TRUE, rooms |-> {}, authed |-> FALSE]]
  /\ connectedUsers = [u \in UserIds |-> Null]
  /\ users = [u \in UserIds |->
                [isOnline |-> FALSE, lastSeen |-> Null,
                 joinedGroups |-> {g \in GroupIds : u \in FirstUsers}]]

(***************************************************************************)
(* SpecSeq: the store interface called sequentially.  A call is findById,  *)
(* the method on the loaded document and the method's save, with no other  *)
(* call in between.  hist keeps the last two calls: the call, what it      *)
(* returned and the stored message before it.                              *)
(***************************************************************************)
Remember(call) == IF hist = <<>> THEN <<call>> ELSE <<Last(hist), call>>

Call(op, m, user, emoji, content, ret, pre) ==
  [op |-> op, m |-> m, user |-> user, emoji |-> emoji, content |-> content,
   ret |-> ret, pre |-> pre]

NewLog(content) ==
  [orig |-> content, edited |-> FALSE, latest |-> content, deleted |-> FALSE,
   offline |-> FALSE]

\* await new Message({sender, recipient, content}).save()
SeqCreateDirect(sender, recipient, content) ==
  /\ ops < MaxSeqOps
  /\ Len(messages) < MaxMsgs
  /\ messages' = Append(messages, PreSave(NewMessage(sender, recipient, Null, content)))
  /\ editLog' = Append(editLog, NewLog(content))
  /\ hist' = Remember(Call("create", Len(messages) + 1, sender, "", content, FALSE, NoDoc))
  /\ ops' = ops + 1
  /\ UNCHANGED <<now, handlers, out, gatewayVars>>

SeqApply(op, m, user, emoji, content, r) ==
  /\ ops < MaxSeqOps
  /\ messages' = [messages EXCEPT ![m] = Save(@, r.doc, r.save)]
  /\ hist' = Remember(Call(op, m, user, emoji, content, r.ret, messages[m]))
  /\ editLog' = IF op = "editContent"
                THEN [editLog EXCEPT ![m] = [@ EXCEPT !.edited = TRUE, !.latest = content]]
                ELSE editLog
  /\ ops' = ops + 1
  /\ UNCHANGED <<now, handlers, out, gatewayVars>>

SeqAddReaction(m, user, emoji) ==
  SeqApply("addReaction", m, user, emoji, <<>>, AddReaction(messages[m], user, emoji))

SeqRemoveReaction(m, user, emoji) ==
  SeqApply("removeReaction", m, user, emoji, <<>>, RemoveReaction(messages[m], user, emoji))

SeqMarkAsRead(m, user) ==
  SeqApply("markAsRead", m, user, "", <<>>, MarkAsRead(messages[m], user))

SeqEditContent(m, content) ==
  SeqApply("editContent", m, Null, "", content, EditContent(messages[m], content))

NextSeq ==
  \/ \E s \in UserIds, r \in UserIds, c \in SentContents : SeqCreateDirect(s, r, c)
  \/ \E m \in DOMAIN messages, u \in UserIds, e \in Emojis : SeqAddReaction(m, u, e)
  \/ \E m \in DOMAIN messages, u \in UserIds, e \in Emojis : SeqRemoveReaction(m, u, e)
  \/ \E m \in DOMAIN messages, u \in UserIds : SeqMarkAsRead(m, u)
  \/ \E m \in DOMAIN messages, c \in Contents : SeqEditContent(m, c)

SpecSeq == InitShared /\ [][NextSeq]_vars

(***************************************************************************)
(* Claims on the sequential store interface.                               *)
(***************************************************************************)
IsDirect(doc) == doc.group = Null /\ doc.recipient # Null

CountReadBy(doc, userId) ==
  Cardinality({i \in DOMAIN doc.readBy : doc.readBy[i].user = userId})

CountReaction(doc, userId, emoji) ==
  Cardinality({i \in DOMAIN doc.reactions :
                 doc.reactions[i].user = userId /\ doc.reactions[i].emoji = emoji})

\* The last two calls were op1 then op2, on the same message with the same
\* user and emoji.
LastTwo(op1, op2) ==
  /\ Len(hist) = 2
  /\ hist[1].op = op1 /\ hist[2].op = op2
  /\ hist[1].m = hist[2].m
  /\ hist[1].user = hist[2].user
  /\ hist[1].emoji = hist[2].emoji

\* C1: the conversation key is order-independent: the key the pre-save hook
\* stored on a direct message from A to B equals the key it stored on a direct
\* message from B to A, and both equal the key getConversation(A,B) and
\* getConversation(B,A) query by.
C1_ConversationKeySymmetric ==
  \A i \in DOMAIN messages, j \in DOMAIN messages :
    ( /\ IsDirect(messages[i]) /\ IsDirect(messages[j])
      /\ messages[i].sender = messages[j].recipient
      /\ messages[i].recipient = messages[j].sender )
    => /\ messages[i].conversation = messages[j].conversation
       /\ messages[i].conversation =
            ConversationId(messages[i].sender, messages[i].recipient)
       /\ messages[i].conversation =
            ConversationId(messages[i].recipient, messages[i].sender)

C1_Witness ==
  \E i \in DOMAIN messages, j \in DOMAIN messages :
    /\ IsDirect(messages[i]) /\ IsDirect(messages[j])
    /\ messages[i].sender # messages[i].recipient
    /\ messages[i].sender = messages[j].recipient
    /\ messages[i].recipient = messages[j].sender

\* C2: markAsRead(userId) called twice in sequence on the same message leaves
\* exactly one readBy entry for userId, and the second call changes nothing in
\* the message.
C2_MarkReadIdempotent ==
  LastTwo("markAsRead", "markAsRead")
    => /\ messages[hist[2].m] = hist[2].pre
       /\ CountReadBy(messages[hist[2].m], hist[2].user) = 1

C2_Witness ==
  /\ LastTwo("markAsRead", "markAsRead")
  /\ ~HasRead(hist[1].pre, hist[1].user)

\* C5 as stated, for every message: addReaction twice with the same (user,
\* emoji) returns true then false and inserts one entry only; removeReaction
\* after addReaction restores the reaction count to its value before the add;
\* removeReaction of an absent pair leaves reactions unchanged.
C5_Original ==
  /\ LastTwo("addReaction", "addReaction")
       => /\ hist[1].ret = TRUE /\ hist[2].ret = FALSE
          /\ Len(messages[hist[2].m].reactions) = Len(hist[1].pre.reactions) + 1
  /\ LastTwo("addReaction", "removeReaction")
       => Len(messages[hist[2].m].reactions) = Len(hist[1].pre.reactions)
  /\ ( /\ hist # <<>> /\ Last(hist).op = "removeReaction"
       /\ ~HasReaction(Last(hist).pre, Last(hist).user, Last(hist).emoji) )
       => messages[Last(hist).m].reactions = Last(hist).pre.reactions

\* C5 as amended: the same, for a message that holds no (user, emoji) entry
\* before the first add; a second add never inserts; on a message that already
\* holds the entry the first add returns false too and a following
\* removeReaction removes the held entry.
C5_ReactionAddRemove ==
  /\ LastTwo("addReaction", "addReaction")
       => /\ hist[2].ret = FALSE
          /\ messages[hist[2].m] = hist[2].pre
          /\ CountReaction(messages[hist[2].m], hist[2].user, hist[2].emoji) = 1
          /\ hist[1].ret = ~HasReaction(hist[1].pre, hist[1].user, hist[1].emoji)
          /\ hist[1].ret
               => Len(messages[hist[2].m].reactions) = Len(hist[1].pre.reactions) + 1
  /\ LastTwo("addReaction", "removeReaction")
       => /\ ~HasReaction(messages[hist[2].m], hist[2].user, hist[2].emoji)
          /\ hist[1].ret
               => Len(messages[hist[2].m].reactions) = Len(hist[1].pre.reactions)
          /\ ~hist[1].ret
               => Len(messages[hist[2].m].reactions) < Len(hist[1].pre.reactions)
  /\ ( /\ hist # <<>> /\ Last(hist).op = "removeReaction"
       /\ ~HasReaction(Last(hist).pre, Last(hist).user, Last(hist).emoji) )
       => messages[Last(hist).m] = Last(hist).pre

C5_Witness ==
  /\ LastTwo("addReaction", "removeReaction")
  /\ hist[1].ret = TRUE
  /\ Len(hist[1].pre.reactions) > 0

\* C6: after one or more editContent calls on a message, edited.originalContent
\* is the content the message had before its first edit, content is the latest
\* new content and edited.isEdited is true.
C6_EditKeepsFirstSnapshot ==
  \A m \in DOMAIN messages :
    editLog[m].edited
      => /\ messages[m].edited.originalContent = editLog[m].orig
         /\ messages[m].content = editLog[m].latest
         /\ messages[m].edited.isEdited

C6_Witness ==
  /\ LastTwo("editContent", "editContent")
  /\ ~hist[1].pre.edited.isEdited
  /\ hist[2].pre.content # editLog[hist[2].m].orig
  /\ hist[2].content # hist[2].pre.content

(***************************************************************************)
(* Events and responses.  An event goes to a room: <<"socket", c>> (the    *)
(* connection itself), <<"user", id>>, <<"group", id>> or <<"all", 0>>,    *)
(* except to connection `except` (socket.to, socket.broadcast).  A REST    *)
(* response goes to <<"res", user>>.                                       *)
(***************************************************************************)
Ev(ev, room, except, m, by) ==
  [ev |-> ev, room |-> room, except |-> except, m |-> m, by |-> by]

Res(status, user, m) == Ev(status, <<"res", user>>, Null, m, user)

\* const roomName = message.group ? `group_${message.group}` : `user_${message.recipient}`
RoomName(doc) ==
  IF doc.group # Null THEN <<"group", doc.group>> ELSE <<"user", doc.recipient>>

\* groupSchema.methods.isMember
IsMember(group, userId) ==
  \E member \in group.members : IdToString(member) = IdToString(userId)

\* groupSchema.methods.isAdmin
IsAdmin(group, userId) ==
  \/ IdToString(group.owner) = IdToString(userId)
  \/ \E admin \in group.admins : IdToString(admin) = IdToString(userId)

\* The requireGroupMember() middleware: the group exists and the requester is
\* a member of it.
RequireGroupMember(groupId, userId) ==
  groupId \in DOMAIN groups /\ IsMember(groups[groupId], userId)

(***************************************************************************)
(* The read paths, as the sequence of message ids they return.             *)
(***************************************************************************)
Min(a, b) == IF a < b THEN a ELSE b

\* .sort({ createdAt: -1 }): newest first; messages are stored in creation
\* order, so among equal timestamps the later insert counts as newer.
NewestFirst == [i \in 1..Len(messages) |-> Len(messages) + 1 - i]

\* .limit(n).skip(k) of a sorted result: Mongoose applies the skip first.
SkipLimit(sorted, skip, limit) ==
  SubSeq(sorted, skip + 1, Min(Len(sorted), skip + limit))

ToLower(ch) == IF ch >= 65 /\ ch <= 90 THEN ch + 32 ELSE ch

\* content: { $regex: q, $options: 'i' } for a q without metacharacters
RegexMatch(content, q) ==
  \E i \in 0..(Len(content) - Len(q)) :
    \A k \in 1..Len(q) : ToLower(content[i + k]) = ToLower(q[k])

\* The mutant of GetConversation that leaves out isDeleted: false.
GetConversationWithDeleted(userId1, userId2, page, limit) ==
  LET conversationId == ConversationId(userId1, userId2)
      found(m) == messages[m].conversation = conversationId
  IN  SkipLimit(SelectSeq(NewestFirst, found), (page - 1) * limit, limit * page)

\* The mutant of GetConversation that skips page * limit messages.
GetConversationSkipsPage(userId1, userId2, page, limit) ==
  LET conversationId == ConversationId(userId1, userId2)
      found(m) == /\ messages[m].conversation = conversationId
                  /\ messages[m].isDeleted = FALSE
  IN  SkipLimit(SelectSeq(NewestFirst, found), page * limit, limit * page)

\* messageSchema.statics.getConversation
GetConversation(userId1, userId2, page, limit) ==
  LET conversationId == ConversationId(userId1, userId2)
      found(m) == /\ messages[m].conversation = conversationId
                  /\ messages[m].isDeleted = FALSE
  IN  SkipLimit(SelectSeq(NewestFirst, found), (page - 1) * limit, limit * page)

\* messageSchema.statics.getGroupMessages
GetGroupMessages(groupId, page, limit) ==
  LET found(m) == /\ messages[m].group = groupId
                  /\ messages[m].isDeleted = FALSE
  IN  SkipLimit(SelectSeq(NewestFirst, found), (page - 1) * limit, limit * page)

\* GET /search/conversation/:userId
SearchConversation(me, userId, q, page, limit) ==
  LET conversationId == ConversationId(me, userId)
      found(m) == /\ messages[m].conversation = conversationId
                  /\ RegexMatch(messages[m].content, q)
                  /\ messages[m].isDeleted = FALSE
  IN  SkipLimit(SelectSeq(NewestFirst, found), (page - 1) * limit, limit * 1)

\* GET /search/group/:groupId
SearchGroup(groupId, q, page, limit) ==
  LET found(m) == /\ messages[m].group = groupId
                  /\ RegexMatch(messages[m].content, q)
                  /\ messages[m].isDeleted = FALSE
  IN  SkipLimit(SelectSeq(NewestFirst, found), (page - 1) * limit, limit * 1)

(***************************************************************************)
(* SpecStore: the REST message routes and the gateway's mark_as_read, each *)
(* handler split where it awaits the store: the step that loads the        *)
(* message and changes the loaded document, and the step in which its      *)
(* save() reaches the store and the handler emits and answers.  Requests   *)
(* come from any user; connections are authenticated, two of the first     *)
(* user and one of each next one.  The clock does not advance here.        *)
(***************************************************************************)
\* Minutes after createdAt during which PUT /:messageId accepts an edit.
EditWindow == 5

UserOfConn(c) == 9 * (((((c + 1) \div 2) - 1) % NumUsers) + 1)

\* The state after the connections authenticated in the order 1, 2, ...
InitStore ==
  /\ InitStoreData
  /\ sockets = [c \in Conns |->
                  [userId |-> UserOfConn(c), open |-> TRUE,
                   rooms |-> {<<"user", UserOfConn(c)>>} \cup
                             {<<"group", g>> : g \in {g \in GroupIds :
                                                       UserOfConn(c) \in FirstUsers}},
                   authed |-> TRUE]]
  /\ connectedUsers = [u \in UserIds |->
                         IF \E c \in Conns : UserOfConn(c) = u
                         THEN CHOOSE c \in Conns :
                                /\ UserOfConn(c) = u
                                /\ \A d \in Conns : UserOfConn(d) = u => d <= c
                         ELSE Null]
  /\ users = [u \in UserIds |->
                [isOnline |-> \E c \in Conns : UserOfConn(c) = u,
                 lastSeen |-> IF \E c \in Conns : UserOfConn(c) = u THEN now ELSE Null,
                 joinedGroups |-> {g \in GroupIds : u \in FirstUsers}]]

FreeSlot(s) ==
  /\ handlers[s].kind = "idle"
  /\ \A t \in Slots : t < s => handlers[t].kind # "idle"

Pending(kind, user, m, r) ==
  [Idle EXCEPT !.kind = kind, !.pc = "save", !.user = user, !.m = m,
               !.doc = r.doc, !.save = r.save, !.added = r.ret]

Begin(s, h, emitted) ==
  /\ ops < MaxOps
  /\ FreeSlot(s)
  /\ handlers' = [handlers EXCEPT ![s] = h]
  /\ out' = emitted
  /\ ops' = IF h.kind = "idle" THEN ops ELSE ops + 1
  /\ UNCHANGED <<storeVars, gatewayVars>>

NotFound(m) == m \notin DOMAIN messages \/ messages[m].isDeleted

\* POST /:messageId/reaction up to the save of addReaction or removeReaction
ReactionLoad(s, user, m, emoji) ==
  IF NotFound(m) THEN Begin(s, Idle, <<Res("404", user, m)>>)
  ELSE
    LET message == messages[m]
        hasAccess ==
          \/ IdToString(message.sender) = IdToString(user)
          \/ (message.recipient # Null
                /\ IdToString(message.recipient) = IdToString(user))
          \/ (message.group # Null /\ message.group \in DOMAIN groups
                /\ user \in groups[message.group].members)
        added == AddReaction(message, user, emoji)
        r == IF added.ret THEN added
             ELSE [RemoveReaction(message, user, emoji) EXCEPT !.ret = FALSE]
    IN  IF ~hasAccess THEN Begin(s, Idle, <<Res("403", user, m)>>)
        ELSE Begin(s, [Pending("reaction", user, m, r) EXCEPT !.emoji = emoji], <<>>)

\* the save of the reaction, the message_reaction event and the response
ReactionSave(s) ==
  LET h == handlers[s] IN
  /\ h.kind = "reaction"
  /\ IF SaveFails(messages[h.m], h.doc, h.save)
     THEN /\ out' = <<Res("500", h.user, h.m)>>
          /\ UNCHANGED messages
     ELSE /\ messages' = [messages EXCEPT ![h.m] = Save(@, h.doc, h.save)]
          /\ out' = <<Ev("message_reaction", RoomName(h.doc), Null, h.m, h.user),
                      Res("200", h.user, h.m)>>
  /\ handlers' = [handlers EXCEPT ![s] = Idle]
  /\ UNCHANGED <<editLog, hist, ops, now, gatewayVars>>

\* The mutant of EditLoad without the edit time limit.
EditLoadNoWindow(s, user, m, content) ==
  IF NotFound(m) THEN Begin(s, Idle, <<Res("404", user, m)>>)
  ELSE
    LET message == messages[m] IN
    IF IdToString(message.sender) # IdToString(user)
    THEN Begin(s, Idle, <<Res("403", user, m)>>)
    ELSE Begin(s, [Pending("edit", user, m, EditContent(message, content))
                     EXCEPT !.content = content], <<>>)

\* PUT /:messageId up to the save of editContent
EditLoad(s, user, m, content) ==
  IF NotFound(m) THEN Begin(s, Idle, <<Res("404", user, m)>>)
  ELSE
    LET message == messages[m] IN
    IF IdToString(message.sender) # IdToString(user)
    THEN Begin(s, Idle, <<Res("403", user, m)>>)
    ELSE IF message.createdAt < now - EditWindow
    THEN Begin(s, Idle, <<Res("400", user, m)>>)
    ELSE Begin(s, [Pending("edit", user, m, EditContent(message, content))
                     EXCEPT !.content = content], <<>>)

EditSave(s) ==
  LET h == handlers[s] IN
  /\ h.kind = "edit"
  /\ messages' = [messages EXCEPT ![h.m] = Save(@, h.doc, h.save)]
  /\ editLog' = [editLog EXCEPT ![h.m] = [@ EXCEPT !.edited = TRUE, !.latest = h.content]]
  /\ out' = <<Ev("message_edited", RoomName(h.doc), Null, h.m, h.user),
              Res("200", h.user, h.m)>>
  /\ handlers' = [handlers EXCEPT ![s] = Idle]
  /\ UNCHANGED <<hist, ops, now, gatewayVars>>

\* The mutant of DeleteLoad that lets every member of the group delete.
DeleteLoadAnyMember(s, user, m) ==
  IF NotFound(m) THEN Begin(s, Idle, <<Res("404", user, m)>>)
  ELSE
    LET message == messages[m]
        isSender == IdToString(message.sender) = IdToString(user)
        canDelete ==
          IF message.group # Null /\ ~isSender
          THEN message.group \in DOMAIN groups /\ IsMember(groups[message.group], user)
          ELSE isSender
    IN  IF ~canDelete THEN Begin(s, Idle, <<Res("403", user, m)>>)
        ELSE Begin(s, Pending("delete", user, m, SoftDelete(message)), <<>>)

\* DELETE /:messageId up to message.save()
DeleteLoad(s, user, m) ==
  IF NotFound(m) THEN Begin(s, Idle, <<Res("404", user, m)>>)
  ELSE
    LET message == messages[m]
        isSender == IdToString(message.sender) = IdToString(user)
        canDelete ==
          IF message.group # Null /\ ~isSender
          THEN message.group \in DOMAIN groups /\ IsAdmin(groups[message.group], user)
          ELSE isSender
    IN  IF ~canDelete THEN Begin(s, Idle, <<Res("403", user, m)>>)
        ELSE Begin(s, Pending("delete", user, m, SoftDelete(message)), <<>>)

\* The mutant of DeleteSave that also soft-deletes the replies to the message.
DeleteSaveCascade(s) ==
  LET h == handlers[s] IN
  /\ h.kind = "delete"
  /\ messages' = [m \in DOMAIN messages |->
                    IF m = h.m THEN Save(messages[m], h.doc, h.save)
                    ELSE IF messages[m].replyTo = h.m
                    THEN [messages[m] EXCEPT !.isDeleted = TRUE, !.deletedAt = now]
                    ELSE messages[m]]
  /\ editLog' = [editLog EXCEPT ![h.m] = [@ EXCEPT !.deleted = TRUE]]
  /\ out' = <<Ev("message_deleted", RoomName(h.doc), Null, h.m, h.user),
              Res("200", h.user, h.m)>>
  /\ handlers' = [handlers EXCEPT ![s] = Idle]
  /\ UNCHANGED <<hist, ops, now, gatewayVars>>

DeleteSave(s) ==
  LET h == handlers[s] IN
  /\ h.kind = "delete"
  /\ messages' = [messages EXCEPT ![h.m] = Save(@, h.doc, h.save)]
  /\ editLog' = [editLog EXCEPT ![h.m] = [@ EXCEPT !.deleted = TRUE]]
  /\ out' = <<Ev("message_deleted", RoomName(h.doc), Null, h.m, h.user),
              Res("200", h.user, h.m)>>
  /\ handlers' = [handlers EXCEPT ![s] = Idle]
  /\ UNCHANGED <<hist, ops, now, gatewayVars>>

\* The room of the message_read event: the groupId of the event's data when
\* it has one, else the sender's personal room.
ReadRoom(groupId, doc) ==
  IF groupId # Null THEN <<"group", groupId>> ELSE <<"user", doc.sender>>

\* socket.on('mark_as_read') up to the save of markAsRead
MarkAsReadLoad(s, c, m, groupId) ==
  /\ sockets[c].open
  /\ IF sockets[c].userId = Null \/ m \notin DOMAIN messages
     THEN Begin(s, Idle, <<>>)
     ELSE
       LET userId == sockets[c].userId
           r == MarkAsRead(messages[m], userId)
       IN  IF r.save = "none"
           THEN Begin(s, Idle,
                      <<Ev("message_read", ReadRoom(groupId, r.doc), c, m, userId)>>)
           ELSE Begin(s, [Pending("mark_as_read", userId, m, r)
                            EXCEPT !.conn = c, !.group = groupId], <<>>)

MarkAsReadSave(s) ==
  LET h == handlers[s] IN
  /\ h.kind = "mark_as_read"
  /\ messages' = [messages EXCEPT ![h.m] = Save(@, h.doc, h.save)]
  /\ out' = <<Ev("message_read", ReadRoom(h.group, h.doc), h.conn, h.m,
                 sockets[h.conn].userId)>>
  /\ handlers' = [handlers EXCEPT ![s] = Idle]
  /\ UNCHANGED <<editLog, hist, ops, now, gatewayVars>>

\* Message.updateMany(filter, { $push: { readBy: { user } } })
UpdateManyRead(matching, user) ==
  [m \in DOMAIN messages |->
     IF m \in matching /\ \A i \in DOMAIN messages[m].readBy :
                                   messages[m].readBy[i].user # user
     THEN [messages[m] EXCEPT !.readBy = Append(@, [user |-> user, readAt |-> now])]
     ELSE messages[m]]

\* GET /conversations/:userId
RestGetConversation(user, userId) ==
  /\ ops < MaxOps
  /\ IF userId \notin UserIds
     THEN /\ out' = <<Res("404", user, Null)>>
          /\ UNCHANGED messages
     ELSE LET matching == {m \in DOMAIN messages :
                                 /\ messages[m].sender = userId
                                 /\ messages[m].recipient = user}
          IN  /\ messages' = UpdateManyRead(matching, user)
              /\ out' = <<Res("200", user, Null)>>
  /\ ops' = ops + 1
  /\ UNCHANGED <<editLog, hist, now, handlers, gatewayVars>>

\* GET /groups/:groupId
RestGetGroupMessages(user, groupId) ==
  /\ ops < MaxOps
  /\ IF ~RequireGroupMember(groupId, user)
     THEN /\ out' = <<Res("403", user, Null)>>
          /\ UNCHANGED messages
     ELSE LET matching == {m \in DOMAIN messages :
                                 /\ messages[m].group = groupId
                                 /\ messages[m].sender # user}
          IN  /\ messages' = UpdateManyRead(matching, user)
              /\ out' = <<Res("200", user, Null)>>
  /\ ops' = ops + 1
  /\ UNCHANGED <<editLog, hist, now, handlers, gatewayVars>>

\* POST /direct
RestSendDirect(user, recipient, content) ==
  /\ Len(messages) < MaxMsgs
  /\ IF recipient \notin UserIds
     THEN /\ out' = <<Res("404", user, Null)>>
          /\ UNCHANGED <<messages, editLog>>
     ELSE LET message == PreSave(NewMessage(user, recipient, Null, content))
          IN  /\ messages' = Append(messages, message)
              /\ editLog' = Append(editLog, NewLog(content))
              /\ out' = <<Ev("new_message", <<"user", recipient>>, Null,
                             Len(messages) + 1, user),
                          Res("201", user, Len(messages) + 1)>>
  /\ UNCHANGED <<hist, ops, now, handlers, gatewayVars>>

\* POST /groups/:groupId
RestSendGroup(user, groupId, content, replyTo) ==
  /\ Len(messages) < MaxMsgs
  /\ IF ~RequireGroupMember(groupId, user)
     THEN /\ out' = <<Res("403", user, Null)>>
          /\ UNCHANGED <<messages, editLog>>
     ELSE LET messageData == NewMessage(user, Null, groupId, content)
              message == PreSave(IF replyTo # Null
                                 THEN [messageData EXCEPT !.replyTo = replyTo]
                                 ELSE messageData)
          IN  /\ messages' = Append(messages, message)
              /\ editLog' = Append(editLog, NewLog(content))
              /\ out' = <<Ev("new_group_message", <<"group", groupId>>, Null,
                             Len(messages) + 1, user),
                          Res("201", user, Len(messages) + 1)>>
  /\ UNCHANGED <<hist, ops, now, handlers, gatewayVars>>

NextStore ==
  \/ \E u \in UserIds, r \in UserIds \cup {GhostId}, c \in SentContents :
       RestSendDirect(u, r, c)
  \/ \E u \in UserIds, g \in GroupIds, c \in SentContents,
          r \in DOMAIN messages \cup {Null} : RestSendGroup(u, g, c, r)
  \/ \E u \in UserIds, o \in UserIds \cup {GhostId} : RestGetConversation(u, o)
  \/ \E u \in UserIds, g \in GroupIds : RestGetGroupMessages(u, g)
  \/ \E s \in Slots, u \in UserIds, m \in MsgIds, e \in Emojis : ReactionLoad(s, u, m, e)
  \/ \E s \in Slots : ReactionSave(s)
  \/ \E s \in Slots, u \in UserIds, m \in MsgIds, c \in Contents : EditLoad(s, u, m, c)
  \/ \E s \in Slots : EditSave(s)
  \/ \E s \in Slots, u \in UserIds, m \in MsgIds : DeleteLoad(s, u, m)
  \/ \E s \in Slots : DeleteSave(s)
  \/ \E s \in Slots, c \in Conns, m \in MsgIds, g \in GroupIds \cup {Null} :
       MarkAsReadLoad(s, c, m, g)
  \/ \E s \in Slots : MarkAsReadSave(s)

SpecStore == InitStore /\ [][NextStore]_vars

(***************************************************************************)
(* Claims on the interleaved handlers.                                     *)
(***************************************************************************)
Pages == 1..2

Limits == 1..2

\* C3: under any interleaving of mark_as_read handlers and conversation or
\* group fetches, every message's readBy holds at most one entry per user.
C3_NoDuplicateReadBy ==
  \A m \in DOMAIN messages, u \in UserIds : CountReadBy(messages[m], u) <= 1

\* C4: under any interleaving of reaction requests, no message's reactions
\* holds two entries with the same (user, emoji) pair.
C4_NoDuplicateReaction ==
  \A m \in DOMAIN messages, u \in UserIds, e \in Emojis :
    CountReaction(messages[m], u, e) <= 1

\* The ids every read path returns, over all users, pages and page sizes.
ReadResults ==
  UNION {Range(GetConversation(a, b, p, l)) \cup Range(GetGroupMessages(g, p, l))
           \cup Range(SearchConversation(a, b, q, p, l))
           \cup Range(SearchGroup(g, q, p, l)) :
         <<a, b, g, q, p, l>> \in
           UserIds \X UserIds \X GroupIds \X Queries \X Pages \X Limits}

\* C7: once the delete of a message is stored, the message is in no result of
\* getConversation, getGroupMessages, conversation search or group search, for
\* any page and page size.
C7_DeletedNeverRead ==
  \A m \in DOMAIN messages : editLog[m].deleted => m \notin ReadResults

\* A deleted message beside a message of the same conversation that is read,
\* with the request handled after the delete still answered.
C7_Witness ==
  \E m \in DOMAIN messages, k \in DOMAIN messages :
    /\ editLog[m].deleted
    /\ m \notin ReadResults
    /\ k \in Range(GetConversation(messages[m].sender, messages[m].recipient, 1, 2))
    /\ messages[m].conversation = messages[k].conversation
    /\ IsDirect(messages[m])

\* C8: once a message is soft-deleted, no REST edit or reaction request changes
\* its content, edited fields or reactions, also when the request had loaded
\* the message before the delete was stored.
C8_DeletedImmutable ==
  [][\A m \in DOMAIN messages :
       editLog[m].deleted
         => /\ messages'[m].content = messages[m].content
            /\ messages'[m].edited = messages[m].edited
            /\ messages'[m].reactions = messages[m].reactions]_vars

(***************************************************************************)
(* SpecGateway: the socket gateway.  Every connection is established and   *)
(* Unauthenticated at first.  The authenticate handler is split at its two *)
(* awaits (User.findById, User.findByIdAndUpdate), the disconnect handler  *)
(* at its one; a store call of authenticate may throw.                     *)
(***************************************************************************)
\* data.token: none, one jwt.verify rejects, or one signed for a user id.
NoToken == 0

BadToken == 1

Tokens == {NoToken, BadToken} \cup UserIds \cup {GhostId}

\* The connections an emitted event reaches: the connected sockets of its
\* room, without the emitting socket of socket.to / socket.broadcast.
Receivers(e) ==
  {c \in Conns :
     /\ sockets[c].open
     /\ c # e.except
     /\ \/ e.room = <<"all", 0>>
        \/ e.room = <<"socket", c>>
        \/ e.room \in sockets[c].rooms}

AuthError(c) == Ev("auth_error", <<"socket", c>>, Null, Null, Null)

Event(s, h, emitted) ==
  /\ ops < MaxEvents
  /\ FreeSlot(s)
  /\ handlers' = [handlers EXCEPT ![s] = h]
  /\ out' = emitted
  /\ ops' = ops + 1

\* socket.on('authenticate') up to await User.findById
Authenticate(s, c, token) ==
  /\ sockets[c].open
  /\ IF token = NoToken \/ token = BadToken
     THEN Event(s, Idle, <<AuthError(c)>>)
     ELSE Event(s, [Idle EXCEPT !.kind = "authenticate", !.pc = "findById",
                                !.conn = c, !.user = token], <<>>)
  /\ UNCHANGED <<storeVars, gatewayVars>>

\* from the user found to await User.findByIdAndUpdate: socket.userId,
\* socket.user, connectedUsers.set
AuthenticateFound(s, failed) ==
  LET h == handlers[s] IN
  /\ h.kind = "authenticate" /\ h.pc = "findById"
  /\ IF failed \/ h.user \notin UserIds
     THEN /\ handlers' = [handlers EXCEPT ![s] = Idle]
          /\ out' = <<AuthError(h.conn)>>
          /\ UNCHANGED <<sockets, connectedUsers>>
     ELSE /\ sockets' = [sockets EXCEPT ![h.conn].userId = h.user]
          /\ connectedUsers' = [connectedUsers EXCEPT ![h.user] = h.conn]
          /\ handlers' = [handlers EXCEPT ![s] =
                            [h EXCEPT !.pc = "findByIdAndUpdate",
                                      !.joined = users[h.user].joinedGroups]]
          /\ out' = <<>>
  /\ UNCHANGED <<storeVars, ops, users, groups>>

\* from the online status written to the end: the rooms joined,
\* authenticated emitted, user_online broadcast
AuthenticateOnline(s, failed) ==
  LET h == handlers[s] IN
  /\ h.kind = "authenticate" /\ h.pc = "findByIdAndUpdate"
  /\ IF failed
     THEN /\ out' = <<AuthError(h.conn)>>
          /\ UNCHANGED <<sockets, users>>
     ELSE /\ users' = [users EXCEPT ![h.user].isOnline = TRUE,
                                    ![h.user].lastSeen = now]
          /\ sockets' = [sockets EXCEPT
                           ![h.conn].rooms = @ \cup {<<"user", h.user>>}
                                               \cup {<<"group", g>> : g \in h.joined},
                           ![h.conn].authed = TRUE]
          /\ out' = <<Ev("authenticated", <<"socket", h.conn>>, Null, Null, h.user),
                      Ev("user_online", <<"all", 0>>, h.conn, Null, h.user)>>
  /\ handlers' = [handlers EXCEPT ![s] = Idle]
  /\ UNCHANGED <<storeVars, ops, connectedUsers, groups>>

\* The connection closes (it leaves its rooms), then socket.on('disconnect')
\* up to await User.findByIdAndUpdate
Disconnect(s, c) ==
  /\ sockets[c].open
  /\ FreeSlot(s)
  /\ sockets' = [sockets EXCEPT ![c].open = FALSE, ![c].rooms = {}]
  /\ IF sockets[c].userId # Null
     THEN /\ connectedUsers' = [connectedUsers EXCEPT ![sockets[c].userId] = Null]
          /\ handlers' = [handlers EXCEPT ![s] =
                            [Idle EXCEPT !.kind = "disconnect", !.pc = "findByIdAndUpdate",
                                         !.conn = c, !.user = sockets[c].userId]]
     ELSE UNCHANGED <<connectedUsers, handlers>>
  /\ out' = <<>>
  /\ UNCHANGED <<storeVars, ops, users, groups>>

\* from the offline status written to the end: user_offline broadcast; a
\* write that throws is caught and logged
DisconnectOffline(s, failed) ==
  LET h == handlers[s] IN
  /\ h.kind = "disconnect"
  /\ IF failed
     THEN /\ out' = <<>>
          /\ UNCHANGED users
     ELSE /\ users' = [users EXCEPT ![h.user].isOnline = FALSE,
                                    ![h.user].lastSeen = now]
          /\ out' = <<Ev("user_offline", <<"all", 0>>, h.conn, Null,
                         sockets[h.conn].userId)>>
  /\ handlers' = [handlers EXCEPT ![s] = Idle]
  /\ UNCHANGED <<storeVars, ops, sockets, connectedUsers, groups>>

NextGateway ==
  \/ \E s \in Slots, c \in Conns, t \in Tokens : Authenticate(s, c, t)
  \/ \E s \in Slots, failed \in BOOLEAN : AuthenticateFound(s, failed)
  \/ \E s \in Slots, failed \in BOOLEAN : AuthenticateOnline(s, failed)
  \/ \E s \in Slots, c \in Conns : Disconnect(s, c)
  \/ \E s \in Slots, failed \in BOOLEAN : DisconnectOffline(s, failed)

SpecGateway == InitShared /\ [][NextGateway]_vars

(***************************************************************************)
(* Gateway claims                                                          *)
(***************************************************************************)
\* The authenticate handlers of connection c that wait at an await.
InFlightAuth(c) ==
  {s \in Slots : handlers[s].kind = "authenticate" /\ handlers[s].conn = c}

\* The disconnect handlers of connection c that wait at their await.
InFlightDisconnect(hs, c) ==
  {s \in Slots : hs[s].kind = "disconnect" /\ hs[s].conn = c}

Emitted(evs, name) == {i \in DOMAIN evs : evs[i].ev = name}

\* C9: an authenticate event that fails (missing token, invalid token,
\* unknown user, or a failing online-status write) on a connection that is
\* not authenticated and has no other authenticate in flight answers
\* auth_error and leaves the connection Unauthenticated: no identity bound
\* to the socket, no presence entry naming it, no room joined, no
\* user_online broadcast, and the connection still open.
C9_FailedAuthStaysUnauthenticated ==
  [][\A c \in Conns :
       (/\ ~sockets[c].authed
        /\ AuthError(c) \in Range(out')
        /\ \A s \in InFlightAuth(c) : handlers'[s] = Idle)
       => /\ sockets'[c].userId = Null
          /\ \A u \in UserIds : connectedUsers'[u] # c
          /\ sockets'[c].rooms = {}
          /\ Emitted(out', "user_online") = {}
          /\ sockets'[c].open = sockets[c].open]_vars

\* The close of a connection that reached Authenticated removes the presence
\* entry of its user and starts one teardown.
C10_AuthenticatedClose ==
  \A c \in Conns :
    (sockets[c].authed /\ sockets[c].open /\ ~sockets'[c].open)
    => /\ connectedUsers'[sockets[c].userId] = Null
       /\ InFlightDisconnect(handlers, c) = {}
       /\ Cardinality(InFlightDisconnect(handlers', c)) = 1

\* A teardown that ends either wrote the user offline with a lastSeen and
\* broadcast one user_offline to the other connections, or (its write threw)
\* wrote and broadcast nothing.
C10_TeardownEnd ==
  \A s \in Slots :
    (handlers[s].kind = "disconnect" /\ handlers'[s] = Idle)
    => LET h == handlers[s] IN
       \/ /\ users'[h.user].isOnline = FALSE
          /\ users'[h.user].lastSeen = now
          /\ Len(out') = 1
          /\ out'[1].ev = "user_offline"
          /\ out'[1].room = <<"all", 0>>
          /\ out'[1].except = h.conn
       \/ /\ users' = users
          /\ out' = <<>>

\* The close of a connection that never authenticated changes neither the
\* registry nor durable state, broadcasts nothing and starts no teardown.
C10_UnauthenticatedClose ==
  \A c \in Conns :
    (/\ ~sockets[c].authed
     /\ InFlightAuth(c) = {}
     /\ sockets[c].open /\ ~sockets'[c].open)
    => /\ connectedUsers' = connectedUsers
       /\ users' = users
       /\ out' = <<>>
       /\ InFlightDisconnect(handlers', c) = {}

\* The teardown of the connections that authenticated, taken alone.
C10_AuthenticatedTeardown == [][C10_AuthenticatedClose /\ C10_TeardownEnd]_vars

\* C10: the disconnect of a connection that reached Authenticated runs its
\* teardown once (presence entry removed, user written offline with a
\* lastSeen, one user_offline broadcast to the others); the disconnect of a
\* connection that never authenticated changes neither the registry nor
\* durable state and broadcasts nothing.
C10_DisconnectTeardown ==
  [][C10_AuthenticatedClose /\ C10_TeardownEnd /\ C10_UnauthenticatedClose]_vars

(***************************************************************************)
(* The exported helpers of the registry                                    *)
(***************************************************************************)
\* isUserOnline(userId): connectedUsers.has
IsUserOnline(userId) == connectedUsers[userId] # Null

\* getUserSocketId(userId): the socket of the entry, or null
GetUserSocketId(userId) == connectedUsers[userId]

\* getConnectedUsers(): the users of the entries
GetConnectedUsers == {u \in UserIds : connectedUsers[u] # Null}

\* Connection c authenticated as user u and has not disconnected.
Live(c, u) == sockets[c].open /\ sockets[c].authed /\ sockets[c].userId = u

\* C11: while no authenticate is in flight, every user with a connection
\* that authenticated as that user and has not disconnected is in the
\* registry (isUserOnline holds and getConnectedUsers lists the user), also
\* when the user has several connections and one of them disconnects.
C11_LiveUserRegistered ==
  (\A c \in Conns : InFlightAuth(c) = {})
  => \A u \in UserIds :
       (\E c \in Conns : Live(c, u)) => IsUserOnline(u) /\ u \in GetConnectedUsers

(***************************************************************************)
(* Read receipts                                                           *)
(***************************************************************************)
\* The room of a message's other participants: its group's room, or the
\* personal room of its sender.
ParticipantsRoom(doc) ==
  IF doc.group # Null THEN <<"group", doc.group>> ELSE <<"user", doc.sender>>

\* C19: a message_read event is emitted for a message whose readBy holds the
\* reader, carries the message id and the reader's id, and goes to the room
\* of the message's own group when it is a group message and to the personal
\* room of its sender otherwise, never to a room unrelated to the message.
C19_ReadReceiptRoom ==
  \A i \in DOMAIN out :
    out[i].ev = "message_read"
    => /\ out[i].m \in DOMAIN messages
       /\ out[i].by \in UserIds
       /\ HasRead(messages[out[i].m], out[i].by)
       /\ out[i].room = ParticipantsRoom(messages[out[i].m])

(***************************************************************************)
(* SpecClock: the edit route under a clock that advances, in minutes.      *)
(***************************************************************************)
MaxTime == 7

\* The recipient of the messages sent under the clock.
LastUser == 9 * NumUsers

\* Date.now() advances between two requests or two steps of a request.
Tick ==
  /\ now < MaxTime
  /\ now' = now + 1
  /\ out' = <<>>
  /\ UNCHANGED <<messages, editLog, hist, ops, handlers, gatewayVars>>

NextClock ==
  \/ Tick
  \/ \E u \in UserIds, c \in SentContents : RestSendDirect(u, LastUser, c)
  \/ \E s \in Slots, u \in UserIds, m \in MsgIds, c \in Contents : EditLoad(s, u, m, c)
  \/ \E s \in Slots : EditSave(s)

SpecClock == InitStore /\ [][NextClock]_vars

\* A PUT /:messageId answered 400 in this step.
EditRejected(m) == \E u \in UserIds : Res("400", u, m) \in Range(out')

\* A PUT /:messageId that passed its checks in this step and waits for its save.
EditAccepted(s) == handlers[s].kind = "idle" /\ handlers'[s].kind = "edit"

\* C20: an edit by the sender is rejected (400), the message unchanged, only
\* when the clock is more than EditWindow minutes past createdAt, and is
\* accepted only when it is within them; when the accepted edit is saved the
\* message has the new content and edited.originalContent is the content the
\* message was created with.
C20_EditWindow ==
  [][/\ \A m \in DOMAIN messages :
          EditRejected(m)
          => now - messages[m].createdAt > EditWindow /\ messages' = messages
     /\ \A s \in Slots :
          EditAccepted(s)
          => LET h == handlers'[s] IN
             /\ now - messages[h.m].createdAt <= EditWindow
             /\ messages[h.m].sender = h.user
             /\ messages' = messages
     /\ \A s \in Slots :
          (handlers[s].kind = "edit" /\ handlers'[s].kind = "idle")
          => LET h == handlers[s] IN
             /\ messages'[h.m].content = h.content
             /\ messages'[h.m].edited.isEdited
             /\ messages'[h.m].edited.originalContent = editLog[h.m].orig
             /\ Res("200", h.user, h.m) \in Range(out')]_vars

\* A message edited 4 minutes after its creation, with its first content in
\* edited.originalContent, whose next edit is rejected at 6 minutes.
C20_Witness ==
  \E m \in DOMAIN messages :
    /\ messages[m].edited.isEdited
    /\ messages[m].edited.editedAt = messages[m].createdAt + 4
    /\ messages[m].content # editLog[m].orig
    /\ messages[m].edited.originalContent = editLog[m].orig
    /\ now = messages[m].createdAt + 6
    /\ Res("400", messages[m].sender, m) \in Range(out)

(***************************************************************************)
(* SpecEvents: the gateway's events after authenticate.  It starts in a    *)
(* state SpecGateway reaches: some of the connections authenticated, in    *)
(* the order 1, 2, ..., each as its user UserOfConn, the others new.  An   *)
(* async handler is split at its first await; its store calls may throw.   *)
(* The members of a group change through removeMember.                     *)
(***************************************************************************)
\* The state after the connections of auth authenticated in increasing order.
Authenticated(auth) ==
  /\ sockets = [c \in Conns |->
                  IF c \in auth
                  THEN [userId |-> UserOfConn(c), open |-> TRUE,
                        rooms |-> {<<"user", UserOfConn(c)>>} \cup
                                  {<<"group", g>> : g \in {g \in GroupIds :
                                                      UserOfConn(c) \in FirstUsers}},
                        authed |-> TRUE]
                  ELSE [userId |-> Null, open |-> TRUE, rooms |-> {}, authed |-> FALSE]]
  /\ connectedUsers = [u \in UserIds |->
                         IF \E c \in auth : UserOfConn(c) = u
                         THEN CHOOSE c \in auth :
                                /\ UserOfConn(c) = u
                                /\ \A d \in auth : UserOfConn(d) = u => d <= c
                         ELSE Null]
  /\ users = [u \in UserIds |->
                [isOnline |-> \E c \in auth : UserOfConn(c) = u,
                 lastSeen |-> IF \E c \in auth : UserOfConn(c) = u THEN now ELSE Null,
                 joinedGroups |-> {g \in GroupIds : u \in FirstUsers}]]

\* The events a run of SpecEvents receives.
MaxCalls == 2

\* All the connections authenticated, or all but the last.
InitEvents ==
  InitStoreData /\ \E auth \in {Conns \ {NumConns}, Conns} : Authenticated(auth)

\* A group id no group has.
GhostGroupId == 7 * (Cardinality(GroupIds) + 1)

\* socket.emit('error', ...)
ErrorTo(c) == Ev("error", <<"socket", c>>, Null, Null, Null)

\* groupSchema.methods.removeMember up to its await of User.findByIdAndUpdate
RemoveMember(s, groupId, userId) ==
  /\ FreeSlot(s)
  /\ IsMember(groups[groupId], userId)
  /\ groups' = [groups EXCEPT ![groupId].members =
                  {m \in @ : IdToString(m) # IdToString(userId)}]
  /\ handlers' = [handlers EXCEPT ![s] =
                    [Idle EXCEPT !.kind = "removeMember", !.pc = "findByIdAndUpdate",
                                 !.user = userId, !.group = groupId]]
  /\ out' = <<>>
  /\ UNCHANGED <<storeVars, ops, sockets, connectedUsers, users>>

\* removeMember: $pull of the group from the user's joinedGroups
RemoveMemberPull(s) ==
  LET h == handlers[s] IN
  /\ h.kind = "removeMember"
  /\ users' = [users EXCEPT ![h.user].joinedGroups = @ \ {h.group}]
  /\ handlers' = [handlers EXCEPT ![s] = Idle]
  /\ out' = <<>>
  /\ UNCHANGED <<storeVars, ops, sockets, connectedUsers, groups>>

\* socket.on('join_group') up to await Group.findById
JoinGroup(s, c, groupId) ==
  /\ ops < MaxCalls
  /\ sockets[c].open
  /\ IF sockets[c].userId = Null
     THEN Event(s, Idle, <<ErrorTo(c)>>)
     ELSE Event(s, [Idle EXCEPT !.kind = "join_group", !.pc = "findById",
                                !.conn = c, !.group = groupId], <<>>)
  /\ UNCHANGED <<storeVars, gatewayVars>>

\* The mutant of JoinGroupFound that trusts the groups the user had joined
\* when it authenticated.
JoinGroupFoundCached(s, failed) ==
  LET h == handlers[s] IN
  /\ h.kind = "join_group"
  /\ IF failed \/ h.group \notin GroupIds \/ sockets[h.conn].userId \notin FirstUsers
     THEN /\ out' = <<ErrorTo(h.conn)>>
          /\ UNCHANGED sockets
     ELSE /\ sockets' = [sockets EXCEPT ![h.conn].rooms = @ \cup {<<"group", h.group>>}]
          /\ out' = <<Ev("joined_group", <<"socket", h.conn>>, Null, Null, h.group)>>
  /\ handlers' = [handlers EXCEPT ![s] = Idle]
  /\ UNCHANGED <<storeVars, ops, connectedUsers, users, groups>>

\* join_group from the group found to the end: isMember, socket.join,
\* joined_group, catch
JoinGroupFound(s, failed) ==
  LET h == handlers[s] IN
  /\ h.kind = "join_group"
  /\ IF \/ failed
        \/ h.group \notin DOMAIN groups
        \/ ~IsMember(groups[h.group], sockets[h.conn].userId)
     THEN /\ out' = <<ErrorTo(h.conn)>>
          /\ UNCHANGED sockets
     ELSE /\ sockets' = [sockets EXCEPT ![h.conn].rooms = @ \cup {<<"group", h.group>>}]
          /\ out' = <<Ev("joined_group", <<"socket", h.conn>>, Null, Null, h.group)>>
  /\ handlers' = [handlers EXCEPT ![s] = Idle]
  /\ UNCHANGED <<storeVars, ops, connectedUsers, users, groups>>

\* socket.on('leave_group')
LeaveGroup(s, c, groupId) ==
  /\ ops < MaxCalls
  /\ sockets[c].open
  /\ Event(s, Idle, <<Ev("left_group", <<"socket", c>>, Null, Null, groupId)>>)
  /\ sockets' = [sockets EXCEPT ![c].rooms = @ \ {<<"group", groupId>>}]
  /\ UNCHANGED <<storeVars, connectedUsers, users, groups>>

\* The handlers that wait to store a message.
PendingSends ==
  {s \in Slots : handlers[s].kind \in {"send_message", "send_group_message"}}

\* An event whose handler has no await.
Emit(emitted) ==
  /\ ops < MaxCalls
  /\ ops' = ops + 1
  /\ out' = emitted
  /\ UNCHANGED handlers

\* What a store call of a sending handler does: it returns, it throws before
\* the message is stored, or message.populate throws after it is stored.
Faults == {"none", "store", "populate"}

\* No connection that is open holds the identity of user u.
HasNoConnection(u) == \A c \in Conns : ~(sockets[c].open /\ sockets[c].userId = u)

\* socket.on('send_message') up to await User.findById
SendMessage(s, c, recipientId, content) ==
  /\ ops < MaxCalls
  /\ sockets[c].open
  /\ Len(messages) + Cardinality(PendingSends) < MaxMsgs
  /\ IF sockets[c].userId = Null
     THEN Event(s, Idle, <<ErrorTo(c)>>)
     ELSE Event(s, [Idle EXCEPT !.kind = "send_message", !.pc = "findById",
                                !.conn = c, !.recipient = recipientId,
                                !.content = content], <<>>)
  /\ UNCHANGED <<storeVars, gatewayVars>>

\* The mutant of SendMessageFound that emits new_message to the sender's
\* connection as well.
SendMessageFoundEcho(s, fault) ==
  LET h == handlers[s]
      sender == sockets[h.conn].userId
      id == Len(messages) + 1
  IN  /\ h.kind = "send_message"
      /\ fault = "none"
      /\ h.recipient \in UserIds
      /\ messages' = Append(messages, PreSave(NewMessage(sender, h.recipient, Null, h.content)))
      /\ editLog' = Append(editLog, NewLog(h.content))
      /\ out' = <<Ev("new_message", <<"user", h.recipient>>, Null, id, sender),
                  Ev("message_sent", <<"socket", h.conn>>, Null, id, sender)>>
      /\ handlers' = [handlers EXCEPT ![s] = Idle]
      /\ UNCHANGED <<hist, ops, now, gatewayVars>>

\* The mutant of SendMessageFound that delivers new_message to the socket the
\* registry names for the recipient.
SendMessageFoundRegistry(s, fault) ==
  LET h == handlers[s]
      sender == sockets[h.conn].userId
      id == Len(messages) + 1
  IN  /\ h.kind = "send_message"
      /\ fault = "none"
      /\ h.recipient \in UserIds
      /\ messages' = Append(messages, PreSave(NewMessage(sender, h.recipient, Null, h.content)))
      /\ editLog' = Append(editLog, NewLog(h.content))
      /\ out' = <<Ev("new_message", <<"socket", GetUserSocketId(h.recipient)>>,
                     h.conn, id, sender),
                  Ev("message_sent", <<"socket", h.conn>>, Null, id, sender)>>
      /\ handlers' = [handlers EXCEPT ![s] = Idle]
      /\ UNCHANGED <<hist, ops, now, gatewayVars>>

\* send_message from the recipient found to the end: new Message, save,
\* populate, new_message, message_sent, catch
SendMessageFound(s, fault) ==
  LET h == handlers[s]
      sender == sockets[h.conn].userId
      id == Len(messages) + 1
  IN  /\ h.kind = "send_message"
      /\ IF fault = "store" \/ h.recipient \notin UserIds
         THEN /\ out' = <<ErrorTo(h.conn)>>
              /\ UNCHANGED <<messages, editLog>>
         ELSE /\ messages' = Append(messages,
                               PreSave(NewMessage(sender, h.recipient, Null, h.content)))
              /\ editLog' = Append(editLog, [NewLog(h.content) EXCEPT
                                                !.offline = HasNoConnection(h.recipient)])
              /\ out' = IF fault = "populate"
                        THEN <<ErrorTo(h.conn)>>
                        ELSE <<Ev("new_message", <<"user", h.recipient>>, h.conn, id, sender),
                               Ev("message_sent", <<"socket", h.conn>>, Null, id, sender)>>
      /\ handlers' = [handlers EXCEPT ![s] = Idle]
      /\ UNCHANGED <<hist, ops, now, gatewayVars>>

\* socket.on('send_group_message') up to await Group.findById
SendGroupMessage(s, c, groupId, content, replyTo) ==
  /\ ops < MaxCalls
  /\ sockets[c].open
  /\ Len(messages) + Cardinality(PendingSends) < MaxMsgs
  /\ IF sockets[c].userId = Null
     THEN Event(s, Idle, <<ErrorTo(c)>>)
     ELSE Event(s, [Idle EXCEPT !.kind = "send_group_message", !.pc = "findById",
                                !.conn = c, !.group = groupId, !.m = replyTo,
                                !.content = content], <<>>)
  /\ UNCHANGED <<storeVars, gatewayVars>>

\* The mutant of SendGroupMessageFound without the membership test.
SendGroupMessageFoundOpen(s, fault) ==
  LET h == handlers[s]
      sender == sockets[h.conn].userId
      id == Len(messages) + 1
  IN  /\ h.kind = "send_group_message"
      /\ fault = "none"
      /\ messages' = Append(messages,
                       [PreSave(NewMessage(sender, Null, h.group, h.content))
                          EXCEPT !.replyTo = h.m])
      /\ editLog' = Append(editLog, NewLog(h.content))
      /\ out' = <<Ev("new_group_message", <<"group", h.group>>, h.conn, id, sender),
                  Ev("group_message_sent", <<"socket", h.conn>>, Null, id, sender)>>
      /\ handlers' = [handlers EXCEPT ![s] = Idle]
      /\ UNCHANGED <<hist, ops, now, gatewayVars>>

\* send_group_message from the group found to the end: isMember, new Message,
\* save, populate, new_group_message, group_message_sent, catch
SendGroupMessageFound(s, fault) ==
  LET h == handlers[s]
      sender == sockets[h.conn].userId
      id == Len(messages) + 1
  IN  /\ h.kind = "send_group_message"
      /\ IF \/ fault = "store"
            \/ h.group \notin DOMAIN groups
            \/ ~IsMember(groups[h.group], sender)
         THEN /\ out' = <<ErrorTo(h.conn)>>
              /\ UNCHANGED <<messages, editLog>>
         ELSE /\ messages' = Append(messages,
                               [PreSave(NewMessage(sender, Null, h.group, h.content))
                                  EXCEPT !.replyTo = h.m])
              /\ editLog' = Append(editLog, NewLog(h.content))
              /\ out' = IF fault = "populate"
                        THEN <<ErrorTo(h.conn)>>
                        ELSE <<Ev("new_group_message", <<"group", h.group>>, h.conn, id, sender),
                               Ev("group_message_sent", <<"socket", h.conn>>, Null, id, sender)>>
      /\ handlers' = [handlers EXCEPT ![s] = Idle]
      /\ UNCHANGED <<hist, ops, now, gatewayVars>>

\* The body of typing_start and typing_stop: the event goes to the group's
\* room if a groupId is given, else to the recipient's room if one is given.
Typing(ev, c, groupId, recipientId) ==
  /\ sockets[c].open
  /\ Emit(IF sockets[c].userId = Null THEN <<>>
          ELSE IF groupId # Null
          THEN <<Ev(ev, <<"group", groupId>>, c, Null, sockets[c].userId)>>
          ELSE IF recipientId # Null
          THEN <<Ev(ev, <<"user", recipientId>>, c, Null, sockets[c].userId)>>
          ELSE <<>>)
  /\ UNCHANGED <<storeVars, gatewayVars>>

\* socket.on('typing_start')
TypingStart(c, groupId, recipientId) == Typing("user_typing", c, groupId, recipientId)

\* socket.on('typing_stop')
TypingStop(c, groupId, recipientId) == Typing("user_stop_typing", c, groupId, recipientId)

\* socket.on('update_status') up to await User.findByIdAndUpdate
UpdateStatus(s, c) ==
  /\ ops < MaxCalls
  /\ sockets[c].open
  /\ IF sockets[c].userId = Null
     THEN Event(s, Idle, <<>>)
     ELSE Event(s, [Idle EXCEPT !.kind = "update_status", !.pc = "findByIdAndUpdate",
                                !.conn = c, !.user = sockets[c].userId], <<>>)
  /\ UNCHANGED <<storeVars, gatewayVars>>

\* update_status from the write to the end: user_status_update, catch
UpdateStatusDone(s, failed) ==
  LET h == handlers[s] IN
  /\ h.kind = "update_status"
  /\ IF failed
     THEN /\ out' = <<>>
          /\ UNCHANGED users
     ELSE /\ users' = [users EXCEPT ![h.user].lastSeen = now]
          /\ out' = <<Ev("user_status_update", <<"all", 0>>, h.conn, Null,
                         sockets[h.conn].userId)>>
  /\ handlers' = [handlers EXCEPT ![s] = Idle]
  /\ UNCHANGED <<storeVars, ops, sockets, connectedUsers, groups>>

\* socket.on('send_notification')
SendNotification(c, recipientId) ==
  /\ sockets[c].open
  /\ Emit(IF recipientId # Null
          THEN <<Ev("new_notification", <<"user", recipientId>>, c, Null, Null)>>
          ELSE <<>>)
  /\ UNCHANGED <<storeVars, gatewayVars>>

\* socket.on('call_user')
CallUser(c, recipientId) ==
  /\ sockets[c].open
  /\ Emit(IF sockets[c].userId = Null THEN <<>>
          ELSE <<Ev("incoming_call", <<"user", recipientId>>, c, Null, sockets[c].userId)>>)
  /\ UNCHANGED <<storeVars, gatewayVars>>

\* socket.on('answer_call')
AnswerCall(c, callerId) ==
  /\ sockets[c].open
  /\ Emit(<<Ev("call_answered", <<"user", callerId>>, c, Null, sockets[c].userId)>>)
  /\ UNCHANGED <<storeVars, gatewayVars>>

\* socket.on('end_call')
EndCall(c, recipientId) ==
  /\ sockets[c].open
  /\ Emit(<<Ev("call_ended", <<"user", recipientId>>, c, Null, sockets[c].userId)>>)
  /\ UNCHANGED <<storeVars, gatewayVars>>

NextEvents ==
  \/ \E s \in Slots, c \in Conns : ops < MaxCalls /\ Authenticate(s, c, UserOfConn(c))
  \/ \E s \in Slots : AuthenticateFound(s, FALSE)
  \/ \E s \in Slots, failed \in BOOLEAN : AuthenticateOnline(s, failed)
  \/ \E s \in Slots, g \in GroupIds, u \in UserIds : RemoveMember(s, g, u)
  \/ \E s \in Slots : RemoveMemberPull(s)
  \/ \E s \in Slots, c \in Conns, g \in GroupIds \cup {GhostGroupId} : JoinGroup(s, c, g)
  \/ \E s \in Slots, failed \in BOOLEAN : JoinGroupFound(s, failed)
  \/ \E s \in Slots, c \in Conns, g \in GroupIds : LeaveGroup(s, c, g)
  \/ \E s \in Slots, c \in Conns, r \in UserIds \cup {GhostId}, t \in SentContents :
       SendMessage(s, c, r, t)
  \/ \E s \in Slots, fault \in Faults : SendMessageFound(s, fault)
  \/ \E s \in Slots, c \in Conns, g \in GroupIds \cup {GhostGroupId}, t \in SentContents,
          r \in DOMAIN messages \cup {Null} : SendGroupMessage(s, c, g, t, r)
  \/ \E s \in Slots, fault \in Faults : SendGroupMessageFound(s, fault)
  \/ \E c \in Conns, g \in GroupIds \cup {Null}, r \in UserIds \cup {Null} :
       TypingStart(c, g, r)
  \/ \E c \in Conns, g \in GroupIds \cup {Null}, r \in UserIds \cup {Null} :
       TypingStop(c, g, r)
  \/ \E s \in Slots, c \in Conns, m \in MsgIds, g \in GroupIds \cup {Null} :
       MarkAsReadLoad(s, c, m, g)
  \/ \E s \in Slots : MarkAsReadSave(s)
  \/ \E s \in Slots, c \in Conns : UpdateStatus(s, c)
  \/ \E s \in Slots, failed \in BOOLEAN : UpdateStatusDone(s, failed)
  \/ \E c \in Conns, r \in UserIds \cup {Null} : SendNotification(c, r)
  \/ \E c \in Conns, r \in UserIds : CallUser(c, r)
  \/ \E c \in Conns, r \in UserIds : AnswerCall(c, r)
  \/ \E c \in Conns, r \in UserIds : EndCall(c, r)
  \/ \E s \in Slots, u \in UserIds, m \in MsgIds : DeleteLoad(s, u, m)
  \/ \E s \in Slots : DeleteSave(s)

SpecEvents == InitEvents /\ [][NextEvents]_vars

(***************************************************************************)
(* Claims on the gateway's events                                          *)
(***************************************************************************)
\* The connections of user u that authenticated and have not disconnected.
LiveConns(u) == {c \in Conns : Live(c, u)}

\* The new_message events of out for a direct message to u that a connection
\* of another user sent.
NewMessagesTo(u) ==
  {i \in DOMAIN out :
     /\ out[i].ev = "new_message"
     /\ out[i].m \in DOMAIN messages
     /\ messages[out[i].m].recipient = u
     /\ out[i].except \notin LiveConns(u)}

\* The claim as stated: with two connections of the recipient, new_message
\* reaches only the one the registry names.
C12_Original ==
  \A u \in UserIds : \A i \in NewMessagesTo(u) :
    Cardinality(LiveConns(u)) = 2
    => Receivers(out[i]) \cap LiveConns(u) = {GetUserSocketId(u)}

\* C12: new_message for a direct message sent to user U goes to U's personal
\* room and reaches every connection that authenticated as U and has not
\* disconnected, the earlier c1 as well as the later c2; the registry, which
\* names c2 only, takes no part in the delivery.
C12_DeliveredToEveryConnection ==
  \A u \in UserIds : \A i \in NewMessagesTo(u) :
    /\ out[i].room = <<"user", u>>
    /\ LiveConns(u) \subseteq Receivers(out[i])

\* new_message sent by the third connection reaches both connections of the
\* first user, of which the registry names the second.
C12_Witness ==
  \E i \in NewMessagesTo(9) :
    /\ LiveConns(9) = {1, 2}
    /\ GetUserSocketId(9) = 2
    /\ out[i].except = 3
    /\ Receivers(out[i]) = {1, 2}

\* The events of evs that connection c originated: emitted to c itself, or to
\* a room with c left out.
OriginatedBy(evs, c) ==
  {i \in DOMAIN evs : evs[i].except = c \/ evs[i].room = <<"socket", c>>}

\* C13: while a connection is Unauthenticated, an event it sends other than
\* authenticate (send_notification, which the claim does not list, set
\* aside) has one effect only, a rejection event emitted to that connection:
\* the connection's identity and rooms stay as they were, it stays open, and
\* nothing it originates reaches another connection.
C13_UnauthenticatedRejected ==
  [][\A c \in Conns :
       (sockets[c].userId = Null /\ InFlightAuth(c) = {})
       => /\ sockets'[c] = sockets[c]
          /\ \A i \in OriginatedBy(out', c) :
               out'[i].ev # "new_notification" => out'[i] = ErrorTo(c)]_vars

\* The event a gateway handler with a store call emits when it succeeds.
SuccessEvent(kind) ==
  CASE kind = "authenticate" -> "authenticated"
    [] kind = "join_group" -> "joined_group"
    [] kind = "send_message" -> "message_sent"
    [] kind = "send_group_message" -> "group_message_sent"
    [] kind = "mark_as_read" -> "message_read"
    [] kind = "update_status" -> "user_status_update"
    [] OTHER -> "none"

\* C14: a gateway handler with a store call (authenticate, join_group,
\* send_message, send_group_message, mark_as_read, update_status) that ends
\* without its success event, because a call threw or a check failed, emits
\* one error event to the originating connection and nothing to any other,
\* and leaves that connection open with the identity and rooms it had.
C14_HandlerErrorScoped ==
  [][\A s \in Slots :
       (SuccessEvent(handlers[s].kind) # "none" /\ handlers'[s] = Idle)
       => LET h == handlers[s] IN
          \/ Emitted(out', SuccessEvent(h.kind)) # {}
          \/ /\ out' \in {<<ErrorTo(h.conn)>>, <<AuthError(h.conn)>>}
             /\ sockets'[h.conn] = sockets[h.conn]]_vars

\* The connections in a room, whether or not an event leaves one out.
InRoom(room) == {c \in Conns : sockets[c].open /\ room \in sockets[c].rooms}

\* C15: when a send_message handler of connection c (user A) ends, then if
\* it confirms (message_sent) it has stored exactly one message, with sender
\* A and the recipient B it was given, an existing user, and has emitted one
\* new_message, which reaches the connections in B's personal room other
\* than c, and one message_sent, to c alone; c does not receive new_message;
\* if B does not exist nothing is stored and c receives an error event.
C15_SendMessage ==
  [][\A s \in Slots :
       (handlers[s].kind = "send_message" /\ handlers'[s] = Idle)
       => LET h == handlers[s]
              A == sockets[h.conn].userId
              id == Len(messages) + 1
              sent == Emitted(out', "message_sent")
              new == Emitted(out', "new_message")
          IN  /\ sent # {}
                 => /\ h.recipient \in UserIds
                    /\ Len(messages') = id
                    /\ \A m \in DOMAIN messages : messages'[m] = messages[m]
                    /\ messages'[id].sender = A
                    /\ messages'[id].recipient = h.recipient
                    /\ messages'[id].group = Null
                    /\ Cardinality(sent) = 1 /\ Cardinality(new) = 1 /\ Len(out') = 2
                    /\ \A i \in sent : out'[i].room = <<"socket", h.conn>> /\ out'[i].m = id
                    /\ \A i \in new :
                         /\ out'[i].m = id
                         /\ Receivers(out'[i]) = InRoom(<<"user", h.recipient>>) \ {h.conn}
              /\ sent = {} => new = {} /\ out' = <<ErrorTo(h.conn)>>
              /\ h.recipient \notin UserIds
                 => messages' = messages /\ out' = <<ErrorTo(h.conn)>>]_vars

\* A send of the second user to the first, confirmed to the sending
\* connection and delivered to the first user's connections.
C15_Witness ==
  \E i, j \in DOMAIN out :
    /\ out[i].ev = "message_sent" /\ out[i].room = <<"socket", 3>>
    /\ out[j].ev = "new_message" /\ Receivers(out[j]) = {1, 2}
    /\ messages[out[i].m].sender = 18 /\ messages[out[i].m].recipient = 9

(***************************************************************************)
(* SpecOffline: direct messages sent through the gateway, some to a user   *)
(* with no connection, who authenticates later; messages are soft-deleted  *)
(* through the REST route.                                                 *)
(***************************************************************************)
NextOffline ==
  \/ \E s \in Slots, c \in Conns, r \in UserIds, t \in SentContents : SendMessage(s, c, r, t)
  \/ \E s \in Slots, fault \in Faults : SendMessageFound(s, fault)
  \/ \E s \in Slots, c \in Conns : Authenticate(s, c, UserOfConn(c))
  \/ \E s \in Slots : AuthenticateFound(s, FALSE)
  \/ \E s \in Slots, failed \in BOOLEAN : AuthenticateOnline(s, failed)
  \/ \E s \in Slots, u \in UserIds, m \in MsgIds : DeleteLoad(s, u, m)
  \/ \E s \in Slots : DeleteSave(s)

SpecOffline == InitEvents /\ [][NextOffline]_vars

\* The direct messages stored while their recipient had no connection, not
\* soft-deleted, whose recipient has authenticated since.
OfflineSent ==
  {m \in DOMAIN messages :
     /\ editLog[m].offline
     /\ ~messages[m].isDeleted
     /\ LiveConns(messages[m].recipient) # {}}

\* The messages of m's conversation that are newer than m and not deleted.
Newer(m) ==
  {n \in DOMAIN messages :
     /\ n > m
     /\ messages[n].conversation = messages[m].conversation
     /\ ~messages[n].isDeleted}

\* The claim as stated: getConversation(A, B, 1, limit) returns every such
\* message.
C16_Original ==
  \A m \in OfflineSent : \A limit \in Limits :
    m \in Range(GetConversation(messages[m].sender, messages[m].recipient, 1, limit))

\* C16: a message A sends to B while B has no connection is stored with the
\* conversation key of the two ids sorted and joined by '_', its new_message
\* reaches no connection, and no new_message is emitted when B authenticates
\* later; after B has authenticated, getConversation(A, B, 1, limit) returns
\* the message as long as it is not soft-deleted and fewer than limit newer
\* messages of the conversation are not soft-deleted.
C16_OfflineSendRetrievable ==
  [][/\ \A s \in Slots :
          (/\ handlers[s].kind = "send_message" /\ handlers'[s] = Idle
           /\ Emitted(out', "message_sent") # {}
           /\ HasNoConnection(handlers[s].recipient))
          => LET h == handlers[s]
                 id == Len(messages) + 1
             IN  /\ Len(messages') = id
                 /\ messages'[id].conversation =
                      JoinIds(SortPair(IdToString(sockets[h.conn].userId),
                                       IdToString(h.recipient)))
                 /\ \A i \in Emitted(out', "new_message") : Receivers(out'[i]) = {}
     /\ \A s \in Slots :
          (handlers[s].kind = "authenticate" /\ handlers'[s] = Idle)
          => Emitted(out', "new_message") = {}
     /\ (\A m \in OfflineSent : \A limit \in Limits :
           Cardinality(Newer(m)) < limit
           => m \in Range(GetConversation(messages[m].sender,
                                          messages[m].recipient, 1, limit)))']_vars

\* A message sent to the second user while it had no connection, listed by
\* getConversation once the user has authenticated on the third connection.
C16_Witness ==
  \E m \in OfflineSent :
    /\ messages[m].sender = 9 /\ messages[m].recipient = 18
    /\ LiveConns(18) = {3}
    /\ m \in Range(GetConversation(9, 18, 1, 1))

\* C17: when a send_group_message handler of connection c ends, it has
\* stored a message only if the sender is then a member of the group, and
\* then one message of that group and sender; if it confirms
\* (group_message_sent, once, to c alone) it has emitted one
\* new_group_message, which reaches every connection in room group_<groupId>
\* except c; if the sender is not a member or the group does not exist,
\* nothing is stored, nothing is broadcast and c receives an error event.
C17_SendGroupMessage ==
  [][\A s \in Slots :
       (handlers[s].kind = "send_group_message" /\ handlers'[s] = Idle)
       => LET h == handlers[s]
              A == sockets[h.conn].userId
              id == Len(messages) + 1
              member == h.group \in DOMAIN groups /\ IsMember(groups[h.group], A)
              sent == Emitted(out', "group_message_sent")
              new == Emitted(out', "new_group_message")
          IN  /\ messages' # messages
                 => /\ member
                    /\ Len(messages') = id
                    /\ \A m \in DOMAIN messages : messages'[m] = messages[m]
                    /\ messages'[id].sender = A
                    /\ messages'[id].group = h.group
                    /\ messages'[id].recipient = Null
              /\ sent # {}
                 => /\ Len(messages') = id
                    /\ Cardinality(sent) = 1 /\ Cardinality(new) = 1 /\ Len(out') = 2
                    /\ \A i \in sent : out'[i].room = <<"socket", h.conn>> /\ out'[i].m = id
                    /\ \A i \in new :
                         /\ out'[i].m = id
                         /\ Receivers(out'[i]) = InRoom(<<"group", h.group>>) \ {h.conn}
              /\ sent = {} => new = {} /\ out' = <<ErrorTo(h.conn)>>
              /\ ~member => messages' = messages /\ out' = <<ErrorTo(h.conn)>>]_vars

\* A group message of the third connection, confirmed to it and delivered to
\* the two other connections in the group's room.
C17_Witness ==
  \E i, j \in DOMAIN out :
    /\ out[i].ev = "group_message_sent" /\ out[i].room = <<"socket", 3>>
    /\ out[j].ev = "new_group_message" /\ Receivers(out[j]) = {1, 2}
    /\ messages[out[i].m].group = 7 /\ messages[out[i].m].sender = 18

\* C18: when a join_group handler of connection c ends, c has been added to
\* room group_<groupId>, and joined_group emitted, only if c's user is then
\* a member of the group in the store; otherwise c's rooms are unchanged
\* and c receives an error event; a leave_group of c removes c from room
\* group_<groupId>, leaves its other rooms, and emits left_group.
C18_JoinLeaveGroup ==
  [][/\ \A s \in Slots :
          (handlers[s].kind = "join_group" /\ handlers'[s] = Idle)
          => LET h == handlers[s]
                 room == <<"group", h.group>>
                 member == /\ h.group \in DOMAIN groups
                           /\ IsMember(groups[h.group], sockets[h.conn].userId)
                 joined == Emitted(out', "joined_group")
             IN  /\ \A c \in Conns \ {h.conn} : sockets'[c] = sockets[c]
                 /\ joined # {}
                    => /\ member
                       /\ sockets'[h.conn].rooms = sockets[h.conn].rooms \cup {room}
                       /\ out' = <<Ev("joined_group", <<"socket", h.conn>>, Null, Null, h.group)>>
                 /\ joined = {} => sockets' = sockets /\ out' = <<ErrorTo(h.conn)>>
                 /\ ~member => joined = {}
     /\ \A c \in Conns : \A i \in Emitted(out', "left_group") :
          out'[i].room = <<"socket", c>>
          => /\ sockets'[c].rooms = sockets[c].rooms \ {<<"group", out'[i].by>>}
             /\ \A d \in Conns \ {c} : sockets'[d] = sockets[d]
     /\ \A c \in Conns :
          sockets'[c].rooms # sockets[c].rooms
          => \/ Emitted(out', "joined_group") # {}
             \/ Emitted(out', "left_group") # {}
             \/ Emitted(out', "authenticated") # {}]_vars

\* A connection that left the group's room and joined it again, its user a
\* member of the group.
C18_Witness ==
  \E c \in Conns :
    /\ out = <<Ev("joined_group", <<"socket", c>>, Null, Null, 7)>>
    /\ <<"group", 7>> \in sockets[c].rooms
    /\ IsMember(groups[7], sockets[c].userId)
    /\ ops = 2

(***************************************************************************)
(* Claims on the authorization of the REST edit and delete.                *)
(***************************************************************************)
IsSender(doc, user) == IdToString(doc.sender) = IdToString(user)

MayDelete(doc, user) ==
  \/ IsSender(doc, user)
  \/ /\ doc.group # Null
     /\ doc.group \in DOMAIN groups
     /\ IsAdmin(groups[doc.group], user)

\* C21: a stored message's content or edit record changes only by the save
\* of an edit its sender requested; it becomes soft-deleted only by the save
\* of a delete requested by its sender or, for a group message, by the owner
\* or an admin of the group; an edit or delete of a stored, non-deleted
\* message by anyone else is answered 403 and leaves every message as it is.
C21_EditDeleteAuthorized ==
  [][/\ \A m \in DOMAIN messages :
          (messages'[m].content # messages[m].content
             \/ messages'[m].edited # messages[m].edited)
          => \E s \in Slots :
               /\ handlers[s].kind = "edit" /\ handlers'[s] = Idle
               /\ handlers[s].m = m
               /\ IsSender(messages[m], handlers[s].user)
     /\ \A m \in DOMAIN messages :
          messages'[m].isDeleted # messages[m].isDeleted
          => \E s \in Slots :
               /\ handlers[s].kind = "delete" /\ handlers'[s] = Idle
               /\ handlers[s].m = m
               /\ messages'[m].isDeleted
               /\ MayDelete(messages[m], handlers[s].user)
     /\ \A s \in Slots, u \in UserIds, m \in DOMAIN messages :
          (~messages[m].isDeleted /\ ~IsSender(messages[m], u)
             /\ \E c \in Contents : EditLoad(s, u, m, c))
          => out' = <<Res("403", u, m)>> /\ messages' = messages
                /\ handlers' = handlers
     /\ \A s \in Slots, u \in UserIds, m \in DOMAIN messages :
          (~messages[m].isDeleted /\ ~MayDelete(messages[m], u)
             /\ DeleteLoad(s, u, m))
          => out' = <<Res("403", u, m)>> /\ messages' = messages
                /\ handlers' = handlers]_vars

\* The group's owner has deleted a group message of another member, and a
\* request of someone who may not delete has just been answered 403.
C21_Witness ==
  \E m \in DOMAIN messages, k \in DOMAIN messages, u \in UserIds :
    /\ messages[m].isDeleted /\ messages[m].group # Null
    /\ ~IsSender(messages[m], groups[messages[m].group].owner)
    /\ ~messages[k].isDeleted /\ ~MayDelete(messages[k], u)
    /\ out = <<Res("403", u, k)>>

(***************************************************************************)
(* The unread count.                                                       *)
(***************************************************************************)
\* GET /unread/count: Message.countDocuments of the filter
UnreadCount(user) ==
  Cardinality({m \in DOMAIN messages :
    /\ \/ messages[m].recipient = user
       \/ /\ messages[m].group \in users[user].joinedGroups
          /\ messages[m].sender # user
    /\ \A i \in DOMAIN messages[m].readBy : messages[m].readBy[i].user # user
    /\ messages[m].isDeleted = FALSE})

\* The non-deleted messages addressed to user, sent by someone else, that
\* user has not read.
UnreadOf(user) ==
  {m \in DOMAIN messages :
    /\ \/ messages[m].recipient = user
       \/ messages[m].group \in users[user].joinedGroups
    /\ messages[m].sender # user
    /\ ~HasRead(messages[m], user)
    /\ ~messages[m].isDeleted}

\* C22: in every reachable state the unread count returned for a user is the
\* number of non-deleted messages addressed to that user (direct, or of a
\* group the user has joined) that someone else sent and the user has not
\* read, a direct message of the user to themselves included.
C22_UnreadCount ==
  \A u \in UserIds : UnreadCount(u) = Cardinality(UnreadOf(u))

(***************************************************************************)
(* The conversation summaries of a user, as the sequence of entries        *)
(* [id: conversation key, lastMessage: message id, unreadCount].           *)
(***************************************************************************)
\* The mutant of GetUserConversations that counts every message the user
\* has no readBy entry on, the user's own included.
GetUserConversationsCountsOwn(userId) ==
  LET match(m) == /\ \/ messages[m].sender = userId
                     \/ messages[m].recipient = userId
                  /\ messages[m].group = Null
                  /\ messages[m].isDeleted = FALSE
      sorted == SelectSeq(NewestFirst, match)
      first(m) == \A k \in Range(sorted) :
                    messages[k].conversation = messages[m].conversation => k <= m
      unread(m) ==
        Cardinality({k \in Range(sorted) :
          /\ messages[k].conversation = messages[m].conversation
          /\ ~(\E i \in DOMAIN messages[k].readBy :
                 messages[k].readBy[i].user = userId)})
      found(m) == /\ messages[m].sender \in DOMAIN users
                  /\ messages[m].recipient \in DOMAIN users
      lasts == SelectSeq(SelectSeq(sorted, first), found)
  IN  [i \in DOMAIN lasts |->
         [id |-> messages[lasts[i]].conversation, lastMessage |-> lasts[i],
          unreadCount |-> unread(lasts[i])]]

\* messageSchema.statics.getUserConversations: $match, $sort, $group with
\* $first and $sum, the two $lookup with $unwind, the final $sort
GetUserConversations(userId) ==
  LET match(m) == /\ \/ messages[m].sender = userId
                     \/ messages[m].recipient = userId
                  /\ messages[m].group = Null
                  /\ messages[m].isDeleted = FALSE
      sorted == SelectSeq(NewestFirst, match)
      first(m) == \A k \in Range(sorted) :
                    messages[k].conversation = messages[m].conversation => k <= m
      unread(m) ==
        Cardinality({k \in Range(sorted) :
          /\ messages[k].conversation = messages[m].conversation
          /\ messages[k].sender # userId
          /\ ~(\E i \in DOMAIN messages[k].readBy :
                 messages[k].readBy[i].user = userId)})
      found(m) == /\ messages[m].sender \in DOMAIN users
                  /\ messages[m].recipient \in DOMAIN users
      lasts == SelectSeq(SelectSeq(sorted, first), found)
  IN  [i \in DOMAIN lasts |->
         [id |-> messages[lasts[i]].conversation, lastMessage |-> lasts[i],
          unreadCount |-> unread(lasts[i])]]

(***************************************************************************)
(* SpecSummary: direct and group messages sent, fetched (which marks them  *)
(* read) and deleted through the REST routes, under the advancing clock.   *)
(***************************************************************************)
\* The last minute of the clock of SpecSummary.
MaxSummaryTime == 2

NextSummary ==
  \/ now < MaxSummaryTime /\ Tick
  \/ \E u \in UserIds, r \in UserIds, c \in SentContents : RestSendDirect(u, r, c)
  \/ \E u \in UserIds, g \in GroupIds, c \in SentContents : RestSendGroup(u, g, c, Null)
  \/ \E u \in UserIds, o \in UserIds : RestGetConversation(u, o)
  \/ \E s \in Slots, u \in UserIds, m \in MsgIds : DeleteLoad(s, u, m)
  \/ \E s \in Slots : DeleteSave(s)

SpecSummary == InitStore /\ [][NextSummary]_vars

(***************************************************************************)
(* Claims on the conversation summaries.                                   *)
(***************************************************************************)
\* The entries of the summaries of userId for the conversation key.
SummaryEntries(userId, key) ==
  LET summaries == GetUserConversations(userId)
  IN  {summaries[i] : i \in {i \in DOMAIN summaries : summaries[i].id = key}}

\* a sent b the direct messages m1 and then m2, the only two of the pair,
\* neither deleted, and b has read neither.
SentTwo(a, b, m1, m2) ==
  /\ a # b
  /\ m1 < m2
  /\ \A m \in {m1, m2} :
       /\ messages[m].sender = a /\ messages[m].recipient = b
       /\ messages[m].group = Null
       /\ ~messages[m].isDeleted
       /\ ~HasRead(messages[m], b)
  /\ messages[m1].createdAt < messages[m2].createdAt
  /\ \A m \in DOMAIN messages :
       messages[m].conversation = ConversationId(a, b) => m \in {m1, m2}

\* C23 as stated: after a sent b two direct messages that b has not read,
\* the summaries of a hold one entry for the pair, with the second message as
\* lastMessage and unreadCount 2.
C23_Original ==
  \A a \in UserIds, b \in UserIds, m1 \in DOMAIN messages, m2 \in DOMAIN messages :
    SentTwo(a, b, m1, m2)
    => SummaryEntries(a, ConversationId(a, b)) =
         {[id |-> ConversationId(a, b), lastMessage |-> m2, unreadCount |-> 2]}

\* C23: after a sent b two direct messages that b has not read, the
\* summaries of a hold one entry for the pair, with the second message as
\* lastMessage and unreadCount 0, and the summaries of b hold one entry for
\* the pair, with the second message as lastMessage and unreadCount 2.
C23_SenderSummaryCountsNone ==
  \A a \in UserIds, b \in UserIds, m1 \in DOMAIN messages, m2 \in DOMAIN messages :
    SentTwo(a, b, m1, m2)
    => /\ SummaryEntries(a, ConversationId(a, b)) =
            {[id |-> ConversationId(a, b), lastMessage |-> m2, unreadCount |-> 0]}
       /\ SummaryEntries(b, ConversationId(a, b)) =
            {[id |-> ConversationId(a, b), lastMessage |-> m2, unreadCount |-> 2]}

\* Two direct messages of one user to another, a minute apart, unread, and
\* the sender's summaries computed on them.
C23_Witness ==
  \E a \in UserIds, b \in UserIds :
    /\ Len(messages) = 2
    /\ SentTwo(a, b, 1, 2)
    /\ Len(GetUserConversations(a)) = 1
    /\ GetUserConversations(a)[1].lastMessage = 2

\* The non-deleted direct messages of conversation key sent or received by
\* userId.
Touching(userId, key) ==
  {m \in DOMAIN messages :
    /\ messages[m].group = Null /\ messages[m].recipient # Null
    /\ ~messages[m].isDeleted
    /\ messages[m].sender = userId \/ messages[m].recipient = userId
    /\ messages[m].conversation = key}

ConversationKeys == {ConversationId(a, b) : <<a, b>> \in UserIds \X UserIds}

\* C24: for every user and every state of the store, the summaries hold
\* exactly one entry per conversation key with a non-deleted direct message
\* sent or received by the user and no other entry; the entry's lastMessage
\* is one of these messages with the latest createdAt, and its unreadCount
\* is the number of them sent by someone else with no readBy entry of the
\* user.
C24_ConversationSummaries ==
  \A u \in UserIds :
    LET summaries == GetUserConversations(u) IN
    /\ \A key \in ConversationKeys :
         Cardinality({i \in DOMAIN summaries : summaries[i].id = key})
           = IF Touching(u, key) # {} THEN 1 ELSE 0
    /\ \A i \in DOMAIN summaries :
         LET e == summaries[i] IN
         /\ e.id \in ConversationKeys
         /\ e.lastMessage \in Touching(u, e.id)
         /\ \A m \in Touching(u, e.id) :
              messages[m].createdAt <= messages[e.lastMessage].createdAt
         /\ e.unreadCount =
              Cardinality({m \in Touching(u, e.id) :
                             messages[m].sender # u /\ ~HasRead(messages[m], u)})

\* A user whose summaries hold an entry with one unread message, beside a
\* soft-deleted direct message of the same conversation.
C24_Witness ==
  \E u \in UserIds, m \in DOMAIN messages :
    /\ messages[m].isDeleted /\ IsDirect(messages[m])
    /\ messages[m].recipient = u
    /\ Len(GetUserConversations(u)) = 1
    /\ GetUserConversations(u)[1].id = messages[m].conversation
    /\ GetUserConversations(u)[1].unreadCount = 1

(***************************************************************************)
(* SpecSends: the four ways a message is stored (send_message and          *)
(* send_group_message of the gateway, POST /direct and POST /groups/:id),  *)
(* and the edit, whose save runs the pre-save hook again.                  *)
(***************************************************************************)
NextSends ==
  \/ \E u \in UserIds, r \in UserIds \cup {GhostId}, c \in SentContents :
       RestSendDirect(u, r, c)
  \/ \E u \in UserIds, g \in GroupIds, c \in SentContents,
          r \in DOMAIN messages \cup {Null} : RestSendGroup(u, g, c, r)
  \/ \E s \in Slots, c \in Conns, r \in UserIds \cup {GhostId}, t \in SentContents :
       SendMessage(s, c, r, t)
  \/ \E s \in Slots, fault \in Faults : SendMessageFound(s, fault)
  \/ \E s \in Slots, c \in Conns, g \in GroupIds \cup {GhostGroupId}, t \in SentContents,
          r \in DOMAIN messages \cup {Null} : SendGroupMessage(s, c, g, t, r)
  \/ \E s \in Slots, fault \in Faults : SendGroupMessageFound(s, fault)
  \/ \E s \in Slots, u \in UserIds, m \in MsgIds, c \in Contents : EditLoad(s, u, m, c)
  \/ \E s \in Slots : EditSave(s)

SpecSends == InitStore /\ [][NextSends]_vars

\* C25: every stored message has exactly one of recipient and group set; a
\* message with a recipient has as conversation the ids of its sender and
\* recipient, sorted and joined by '_'; a group message has no conversation.
C25_RecipientXorGroup ==
  \A m \in DOMAIN messages :
    LET doc == messages[m] IN
    /\ (doc.recipient # Null) # (doc.group # Null)
    /\ doc.recipient # Null
       => doc.conversation =
            JoinIds(SortPair(IdToString(doc.sender), IdToString(doc.recipient)))
    /\ doc.group # Null => doc.conversation = <<>>
    /\ doc.conversation # <<>> <=> doc.recipient # Null

\* A direct message of the second user to the first, stored by the gateway
\* and confirmed, beside a group message.
C25_Witness ==
  /\ Len(messages) = 2
  /\ messages[1].group # Null
  /\ messages[2].recipient # Null
  /\ StrLess(IdToString(messages[2].recipient), IdToString(messages[2].sender))
  /\ Emitted(out, "message_sent") # {}

(***************************************************************************)
(* Claims on the order of the events of one connection.                    *)
(***************************************************************************)
\* The handlers of events of connection c that wait at an await.
InFlightOf(c) ==
  {s \in Slots : handlers[s].kind # "idle" /\ handlers[s].conn = c}

\* C26: the events of one connection are handled one after the other: while
\* the handler of an event of connection c waits at an await, no handler of
\* a later event of c starts; and a send_message received on c while an
\* authenticate of c with the token of an existing user waits is handled as
\* authenticated (its handler goes on to look up the recipient) when the
\* store does not fail.
C26_ReceiptOrder ==
  [][\A c \in Conns :
       /\ \A t \in Slots :
            (InFlightOf(c) # {} /\ handlers[t].kind = "idle")
            => ~(handlers'[t].kind # "idle" /\ handlers'[t].conn = c)
       /\ \A s \in Slots, r \in UserIds, t \in SentContents :
            (/\ \E a \in InFlightAuth(c) : handlers[a].user \in UserIds
             /\ SendMessage(s, c, r, t))
            => handlers'[s].kind = "send_message"]_vars

(***************************************************************************)
(* Claims on the events of the REST routes.                                *)
(***************************************************************************)
\* C27: every step in which a REST request stores a message or changes a
\* stored one (send, edit, delete, reaction, the readBy entries pushed by a
\* conversation or group fetch) emits an event that names the message to a
\* user or group room.
C27_RestMutationPushed ==
  [][\A m \in DOMAIN messages' :
       (m \notin DOMAIN messages \/ messages'[m] # messages[m])
       => \E i \in DOMAIN out' :
            /\ out'[i].room[1] \in {"user", "group"}
            /\ out'[i].m = m]_vars

(***************************************************************************)
(* SpecPages: getConversation and getGroupMessages as functions of the     *)
(* store.  The store starts with any messages a run of sends and deletes   *)
(* leaves (direct messages between any two users, group messages, some     *)
(* soft-deleted); a step reads one page and answers with it.               *)
(***************************************************************************)
MaxPageMsgs == 3

\* The stored form of the messages the send routes create.
SentDocs ==
  {PreSave(NewMessage(a, b, Null, c)) :
     <<a, b, c>> \in UserIds \X UserIds \X SentContents}
  \cup {PreSave(NewMessage(a, Null, g, c)) :
          <<a, g, c>> \in FirstUsers \X GroupIds \X SentContents}

InitPages ==
  /\ now = 0
  /\ \E n \in 0..MaxPageMsgs :
       messages \in [1..n -> SentDocs \cup {SoftDelete(doc).doc : doc \in SentDocs}]
  /\ editLog = [m \in DOMAIN messages |->
                  [NewLog(messages[m].content) EXCEPT !.deleted = messages[m].isDeleted]]
  /\ hist = <<>>
  /\ ops = 0
  /\ handlers = [s \in Slots |-> Idle]
  /\ out = <<>>
  /\ groups = [g \in GroupIds |->
                 [owner |-> 9, admins |-> {}, members |-> FirstUsers]]
  /\ Authenticated(Conns)

\* const messages = await Message.getConversation(req.user._id, userId, page, limit)
ReadConversation(user, userId, page, limit) ==
  /\ out' = <<Ev("messages", <<"res", user>>, Null,
                 GetConversation(user, userId, page, limit), user)>>
  /\ UNCHANGED <<storeVars, ops, handlers, gatewayVars>>

\* const messages = await Message.getGroupMessages(groupId, page, limit)
ReadGroupMessages(user, groupId, page, limit) ==
  /\ RequireGroupMember(groupId, user)
  /\ out' = <<Ev("messages", <<"res", user>>, Null,
                 GetGroupMessages(groupId, page, limit), user)>>
  /\ UNCHANGED <<storeVars, ops, handlers, gatewayVars>>

NextPages ==
  \/ \E u \in UserIds, o \in UserIds, p \in Pages, l \in Limits :
       ReadConversation(u, o, p, l)
  \/ \E u \in UserIds, g \in GroupIds, p \in Pages, l \in Limits :
       ReadGroupMessages(u, g, p, l)

SpecPages == InitPages /\ [][NextPages]_vars

\* The non-deleted messages of the conversation of a and b, newest first.
LiveConversation(a, b) ==
  LET live(m) == /\ messages[m].conversation = ConversationId(a, b)
                 /\ ~messages[m].isDeleted
  IN  SelectSeq(NewestFirst, live)

\* The non-deleted messages of group g, newest first.
LiveGroup(g) ==
  LET live(m) == messages[m].group = g /\ ~messages[m].isDeleted
  IN  SelectSeq(NewestFirst, live)

\* Positions (page - 1) * limit + 1 through page * limit of a sequence.
PageOf(sorted, page, limit) ==
  SubSeq(sorted, (page - 1) * limit + 1, Min(Len(sorted), page * limit))

\* C28: page p of getConversation and of getGroupMessages is the non-deleted
\* messages at the newest-first positions (p - 1) * pageSize + 1 through
\* p * pageSize, at most pageSize of them, so that two pages share no
\* message.
C28_OffsetPages ==
  \A p \in Pages, l \in Limits :
    /\ \A a \in UserIds, b \in UserIds :
         /\ GetConversation(a, b, p, l) = PageOf(LiveConversation(a, b), p, l)
         /\ Len(GetConversation(a, b, p, l)) <= l
         /\ \A q \in Pages \ {p} :
              Range(GetConversation(a, b, p, l))
                \cap Range(GetConversation(a, b, q, l)) = {}
    /\ \A g \in GroupIds :
         /\ GetGroupMessages(g, p, l) = PageOf(LiveGroup(g), p, l)
         /\ Len(GetGroupMessages(g, p, l)) <= l

(***************************************************************************)
(* Claims on the read receipts under interleaved requests.                 *)
(***************************************************************************)
\* C29: readBy only grows: in every step, whatever mark-read, edit,
\* reaction or delete is saved and whatever was loaded before, every
\* message keeps the readBy entries it has, in their order.
C29_ReadByGrows ==
  [][\A m \in DOMAIN messages :
       /\ m \in DOMAIN messages'
       /\ Len(messages'[m].readBy) >= Len(messages[m].readBy)
       /\ SubSeq(messages'[m].readBy, 1, Len(messages[m].readBy))
            = messages[m].readBy]_vars

\* An edit or a delete has just been saved on a message that has a readBy
\* entry.
C29_Witness ==
  \E m \in DOMAIN messages, u \in UserIds :
    /\ HasRead(messages[m], u)
    /\ \/ Ev("message_edited", RoomName(messages[m]), Null, m, messages[m].sender)
            \in Range(out)
       \/ Ev("message_deleted", RoomName(messages[m]), Null, m, messages[m].sender)
            \in Range(out)

(***************************************************************************)
(* Claims on the successful authenticate.                                  *)
(***************************************************************************)
\* C30: in the step in which an authenticate of an open connection c
\* succeeds (authenticated is emitted), the connection holds the user's identity,
\* the presence registry has an entry for the user, c has joined the user's
\* personal room and the room of every group of the joinedGroups read when
\* the user was found and no other room, the user is stored as online, and
\* the step emits authenticated to c and user_online to every connection
\* but c.
C30_AuthenticateSuccess ==
  [][\A s \in Slots :
       (/\ handlers[s].kind = "authenticate" /\ handlers'[s] = Idle
        /\ Emitted(out', "authenticated") # {}
        /\ sockets[handlers[s].conn].open)
       => LET h == handlers[s]
              c == h.conn
          IN  /\ sockets'[c].userId = h.user
              /\ sockets'[c].authed
              /\ connectedUsers'[h.user] # Null
              /\ sockets'[c].rooms =
                   sockets[c].rooms \cup {<<"user", h.user>>}
                     \cup {<<"group", g>> : g \in h.joined}
              /\ users'[h.user].isOnline
              /\ out' = <<Ev("authenticated", <<"socket", c>>, Null, Null, h.user),
                          Ev("user_online", <<"all", 0>>, c, Null, h.user)>>]_vars

C32_RoomMembersAreMembers ==
  \A c \in Conns, g \in GroupIds :
    (/\ sockets[c].open /\ <<"group", g>> \in sockets[c].rooms
     /\ sockets[c].userId # groups[g].owner)
    => IsMember(groups[g], sockets[c].userId)

(***************************************************************************)
(* Claims on a disconnect that overtakes a handler.                        *)
(***************************************************************************)
\* No handler waits at an await.
Quiescent == \A s \in Slots : handlers[s] = Idle

\* C33: in every state with no handler in flight, no presence entry names
\* a connection that has closed, and the user of a closed connection who has
\* no open connection is stored as offline.
C33_DisconnectDuringHandler ==
  Quiescent
  => \A c \in Conns :
       ~sockets[c].open
       => /\ \A u \in UserIds : connectedUsers[u] # c
          /\ (sockets[c].userId # Null /\ HasNoConnection(sockets[c].userId))
             => ~users[sockets[c].userId].isOnline

\* C34: in every state with no handler in flight, an open connection is in
\* the personal room of no user but the one whose identity it holds, and
\* every presence entry that names the connection is the entry of that
\* user.
C34_IdentityBoundOnce ==
  Quiescent
  => \A c \in Conns, u \in UserIds :
       sockets[c].open
       => /\ <<"user", u>> \in sockets[c].rooms => sockets[c].userId = u
          /\ connectedUsers[u] = c => sockets[c].userId = u

(***************************************************************************)
(* Claims on what an Unauthenticated connection can do.                    *)
(***************************************************************************)
\* C35: no event a connection emits through socket.to or socket.broadcast
\* while it holds no identity and has no authenticate in flight is received
\* by another connection.
C35_UnauthenticatedReachesNobody ==
  [][\A c \in Conns :
       (sockets[c].userId = Null /\ InFlightAuth(c) = {})
       => \A i \in DOMAIN out' :
            out'[i].except = c => Receivers(out'[i]) \subseteq {c}]_vars

(***************************************************************************)
(* Claims on who may mark a message read.                                  *)
(***************************************************************************)
\* The users a message concerns: its sender, the recipient of a direct
\* message, the members of the group of a group message.
Participant(doc, user) ==
  \/ doc.sender = user
  \/ doc.recipient # Null /\ doc.recipient = user
  \/ /\ doc.group # Null /\ doc.group \in DOMAIN groups
     /\ IsMember(groups[doc.group], user)

\* C36: a step adds a readBy entry of a user to a message only when the
\* user is a participant of the message, and a message_read event names a
\* reader who is a participant of the message read.
C36_ReadByParticipantsOnly ==
  [][/\ \A m \in DOMAIN messages, u \in UserIds :
          (HasRead(messages'[m], u) /\ ~HasRead(messages[m], u))
          => Participant(messages[m], u)
     /\ \A i \in Emitted(out', "message_read") :
          Participant(messages'[out'[i].m], out'[i].by)]_vars

(***************************************************************************)
(* Claims on the room of the events of the REST routes.                    *)
(***************************************************************************)
\* The participant of a direct message who is not user.
OtherParticipant(doc, user) ==
  IF IdToString(doc.sender) = IdToString(user) THEN doc.recipient ELSE doc.sender

\* C37: every message_reaction, message_edited and message_deleted event on
\* a direct message goes to the personal room of the participant of the
\* message who did not make the request.
C37_EventToOtherParticipant ==
  [][\A i \in DOMAIN out' :
       (/\ out'[i].ev \in {"message_reaction", "message_edited", "message_deleted"}
        /\ IsDirect(messages'[out'[i].m]))
       => out'[i].room =
            <<"user", OtherParticipant(messages'[out'[i].m], out'[i].by)>>]_vars

(***************************************************************************)
(* SpecReactions: reaction requests interleaved on one stored message that *)
(* already carries reactions (added by earlier requests, the same pair     *)
(* twice included), so that a request that takes a reaction off races with *)
(* requests that add.                                                      *)
(***************************************************************************)
MaxReactions == 2

ReactionSeqs ==
  UNION {[1..n -> {[user |-> u, emoji |-> e, createdAt |-> 0] :
                     <<u, e>> \in UserIds \X Emojis}] : n \in 0..MaxReactions}

ReactedDocs ==
  {[doc EXCEPT !.reactions = r, !.v = Len(r)] :
     <<doc, r>> \in SentDocs \X ReactionSeqs}

InitReactions ==
  /\ now = 0
  /\ messages \in [1..1 -> ReactedDocs]
  /\ editLog = [m \in DOMAIN messages |-> NewLog(messages[m].content)]
  /\ hist = <<>>
  /\ ops = 0
  /\ handlers = [s \in Slots |-> Idle]
  /\ out = <<>>
  /\ groups = [g \in GroupIds |->
                 [owner |-> 9, admins |-> {}, members |-> FirstUsers]]
  /\ Authenticated(Conns)

NextReactions ==
  \/ \E s \in Slots, u \in UserIds, m \in MsgIds, e \in Emojis : ReactionLoad(s, u, m, e)
  \/ \E s \in Slots : ReactionSave(s)

SpecReactions == InitReactions /\ [][NextReactions]_vars

(***************************************************************************)
(* C38: a reaction request changes only the requester's own entries.  In   *)
(* every step, under every interleaving of the requests, the reactions of  *)
(* a user y on a message change only in the save of a reaction request of  *)
(* y on that message: no request of another user adds, removes or loses    *)
(* one of them.                                                            *)
(***************************************************************************)
ReactionsOf(doc, y) ==
  LET own(r) == IdToString(r.user) = IdToString(y)
  IN  SelectSeq(doc.reactions, own)

C38_OwnReactionOnly ==
  [][\A m \in DOMAIN messages, y \in UserIds :
       ReactionsOf(messages'[m], y) # ReactionsOf(messages[m], y)
       => \E s \in Slots : /\ handlers[s].kind = "reaction"
                           /\ handlers[s].user = y
                           /\ handlers[s].m = m
                           /\ handlers'[s] = Idle]_vars

\* y's add was saved while x's request to take its own reaction off, loaded
\* before it, is in flight
C38_Witness ==
  \E m \in DOMAIN messages, s \in Slots, x \in UserIds, y \in UserIds :
    /\ x # y
    /\ handlers[s].kind = "reaction" /\ handlers[s].user = x /\ handlers[s].m = m
    /\ ReactionsOf(handlers[s].doc, y) = <<>>
    /\ ReactionsOf(messages[m], y) # <<>>
    /\ handlers[s].save = "setReactions"

(***************************************************************************)
(* C39: the conversation key is injective on unordered pairs of ids.  For  *)
(* ids a, b, c, d of the fixed-width hexadecimal format (the self pair     *)
(* a = b included), the key of (a, b) equals the key of (c, d) only when   *)
(* {a, b} = {c, d}; two stored direct messages with one key are between    *)
(* the same two users; and every message getConversation(a, b) returns has *)
(* exactly a and b as its sender and recipient.                            *)
(***************************************************************************)
KeyIds == UserIds \cup {GhostId, 10, 144}

Ends(doc) == {doc.sender, doc.recipient}

C39_KeyInjective ==
  /\ \A a \in KeyIds, b \in KeyIds, c \in KeyIds, d \in KeyIds :
       ConversationId(a, b) = ConversationId(c, d) => {a, b} = {c, d}
  /\ \A m \in DOMAIN messages, n \in DOMAIN messages :
       (/\ IsDirect(messages[m]) /\ IsDirect(messages[n])
        /\ messages[m].conversation = messages[n].conversation)
       => Ends(messages[m]) = Ends(messages[n])
  /\ \A a \in UserIds \cup {GhostId}, b \in UserIds \cup {GhostId},
        p \in Pages, l \in Limits :
       LET got == GetConversation(a, b, p, l)
       IN  \A k \in DOMAIN got :
             /\ IsDirect(messages[got[k]])
             /\ Ends(messages[got[k]]) = {a, b}

\* a message of a to itself and a message between a and b are stored, and
\* the conversation of a and b was just read and returned a message
C39_Witness ==
  \E a \in UserIds, b \in UserIds :
    /\ a # b
    /\ \E m \in DOMAIN messages :
         ~messages[m].isDeleted /\ messages[m].sender = a /\ messages[m].recipient = a
    /\ \E m \in DOMAIN messages :
         ~messages[m].isDeleted /\ messages[m].sender = b /\ messages[m].recipient = a
    /\ \E i \in DOMAIN out, p \in Pages, l \in Limits :
         /\ out[i].ev = "messages"
         /\ out[i].by = a
         /\ out[i].m # <<>>
         /\ out[i].m = GetConversation(a, b, p, l)

=============================================================================
